---------------------------- MODULE Spec2Model ----------------------------
(***************************************************************************)
(* Retrieval / fusion / rerank pipeline of AskMe.                          *)
(*                                                                         *)
(* Spec        the HTTP handler search_documents (routes/search_api.py)    *)
(*             with Reranker.rerank and the text-search fallback.          *)
(* SpecFusion  the two RRF fusion functions applied to bounded inputs.     *)
(* SpecHybrid  HybridSearchEngine.search with an optional keyword engine,  *)
(*             and DocumentRetriever._hybrid_retrieve.                     *)
(* SpecRank    ResultRanker.rank_results and                               *)
(*             DiversityEnhancer.enhance_diversity on result objects that  *)
(*             are updated in place, with a wall clock.                    *)
(* SpecRerank  Reranker.rerank and Reranker.compute_scores with a scoring  *)
(*             model.                                                      *)
(* SpecEnhance QueryEnhancer.enhance_query on bounded queries.             *)
(* SpecWeighted HybridSearchResult.weighted_fusion and                     *)
(*             ResultFusion._score_fusion on bounded channel lists.        *)
(* SpecScore   ResultRanker's score components of one result.              *)
(* SpecQueue   TaskQueue: submit_task, the worker threads and cancel_task, *)
(*             interleaved statement by statement.                         *)
(*                                                                         *)
(* Python strings are sequences of one-character strings.  Scores are      *)
(* integers in units of 1e-5 ("ticks"), so that round(x, 4) is visible.    *)
(***************************************************************************)
EXTENDS Integers, Sequences, FiniteSets, TLC

(***************************************************************************)
(* Bounds                                                                  *)
(***************************************************************************)
\* largest value of the `limit` request parameter that is explored
MaxLimit == 2
\* largest value of the `recall_size` request parameter (top_k of one recall)
MaxRecall == 2

(***************************************************************************)
(* Python values and string primitives                                     *)
(***************************************************************************)
\* Optional[str] / dict values that flow into actual_team and search_team
NoneV == [tag |-> "None", s |-> <<>>]
StrV(s) == [tag |-> "str", s |-> s]

\* bool(v): None and "" are falsy, a non-empty dict or str is truthy
Truthy(v) == v.tag = "dict" \/ (v.tag = "str" /\ v.s # <<>>)

\* Python `a or b`
PyOr(a, b) == IF Truthy(a) THEN a ELSE b

\* str.isspace for one character
IsSpace(c) == c \in {" "}

RECURSIVE lstrip(_)
lstrip(s) == IF s # <<>> /\ IsSpace(Head(s)) THEN lstrip(Tail(s)) ELSE s

RECURSIVE rstrip(_)
rstrip(s) ==
  IF s # <<>> /\ IsSpace(s[Len(s)]) THEN rstrip(SubSeq(s, 1, Len(s) - 1)) ELSE s

\* str.strip()
strip(s) == rstrip(lstrip(s))

\* str.startswith(p)
startswith(s, p) == Len(s) >= Len(p) /\ SubSeq(s, 1, Len(p)) = p

\* length of the leading run of non-whitespace characters
RECURSIVE TokenLen(_)
TokenLen(s) == IF s = <<>> \/ IsSpace(Head(s)) THEN 0 ELSE 1 + TokenLen(Tail(s))

\* str.split(None, 1): at most one split at a run of whitespace
split1(s) ==
  LET t == lstrip(s)
      n == TokenLen(t)
      rest == lstrip(SubSeq(t, n + 1, Len(t)))
  IN  IF t = <<>> THEN <<>>
      ELSE IF rest = <<>> THEN <<SubSeq(t, 1, n)>>
      ELSE <<SubSeq(t, 1, n), rest>>

\* str.lower() for one character (only Latin letters have a lower case)
LowerChar(c) == IF c = "A" THEN "a" ELSE c

\* str.lower()
lower(s) == [i \in 1..Len(s) |-> LowerChar(s[i])]

\* Python `sub in s` for strings
contains(sub, s) ==
  \E i \in 0..(Len(s) - Len(sub)) : SubSeq(s, i + 1, i + Len(sub)) = sub

\* Python s[:k] for a list or a string, negative k included
Take(s, k) ==
  IF k >= 0 THEN SubSeq(s, 1, IF k < Len(s) THEN k ELSE Len(s))
  ELSE SubSeq(s, 1, IF Len(s) + k > 0 THEN Len(s) + k ELSE 0)

\* round(x, 4) on ticks of 1e-5 (no explored score lies on an exact half)
Round4(x) == ((x + 5) \div 10) * 10

\* str.replace(old, new, count) for a non-empty old; count < 0 replaces all
RECURSIVE replace(_, _, _, _)
replace(s, old, new, count) ==
  IF count = 0 \/ Len(s) < Len(old) THEN s
  ELSE IF SubSeq(s, 1, Len(old)) = old
       THEN new \o replace(SubSeq(s, Len(old) + 1, Len(s)), old, new, count - 1)
       ELSE <<Head(s)>> \o replace(Tail(s), old, new, count)

\* " ".join(words)
RECURSIVE join(_)
join(words) ==
  IF words = <<>> THEN <<>>
  ELSE IF Len(words) = 1 THEN Head(words)
  ELSE Head(words) \o <<" ">> \o join(Tail(words))

\* list(dict.fromkeys(xs)): drop later duplicates, keep first-seen order
RECURSIVE dedup(_)
dedup(xs) ==
  IF xs = <<>> THEN <<>>
  ELSE LET front == dedup(SubSeq(xs, 1, Len(xs) - 1))
           last == xs[Len(xs)]
       IN  IF \E i \in 1..Len(front) : front[i] = last THEN front
           ELSE Append(front, last)

(***************************************************************************)
(* Non-Latin characters are written as one token per character:           *)
(***************************************************************************)
\*   yan    U+7814
\*   fa     U+53D1
\*   bu     U+90E8
\*   chan   U+4EA7
\*   pin    U+54C1
\*   tuan   U+56E2
\*   dui    U+961F
\*   ce     U+6D4B
\*   shi    U+8BD5
\*   zhi    U+8D28
\*   liang  U+91CF
\*   bao    U+4FDD
\*   zhang  U+969C
\*   an     U+5B89
\*   quan   U+5168
\*   yun    U+8FD0
\*   wei    U+7EF4
\*   ren    U+4EBA
\*   li     U+529B
\*   zi     U+8D44
\*   yuan   U+6E90
\*   cai    U+8D22
\*   wu     U+52A1
\*   fa3    U+6CD5
\*   wen    U+95EE
\*   ti     U+9898
\*   yi     U+7591
\*   fang   U+65B9
\*   shi4   U+5F0F
\*   pei    U+914D
\*   zhi4   U+7F6E
\*   she    U+8BBE
\*   cuo    U+9519
\*   wu4    U+8BEF
\*   yi4    U+5F02
\*   chang  U+5E38
\*   wen2   U+6587
\*   dang   U+6863
\*   jian   U+4EF6
\*   xi     U+7CFB
\*   tong   U+7EDF
\*   ping   U+5E73
\*   tai    U+53F0
\*   yong   U+7528
\*   hu     U+6237
\*   shi3   U+4F7F
\*   zhe    U+8005
\*   shu    U+6570
\*   ju     U+636E
\*   xin    U+4FE1
\*   xi1    U+606F
\*   de     U+7684
\*   shi5   U+662F
\*   zai    U+5728
\*   you    U+6709
\*   he     U+548C
\*   le     U+4E86
\*   yu     U+4E0E
\*   dui4   U+5BF9
\*   zhe4   U+8FD9
\*   na     U+90A3
\*   ru     U+5982
\*   he2    U+4F55
\*   zen    U+600E
\*   me     U+4E48
\*   shen   U+4EC0
\*   wei4   U+4E3A
\*   shu3   U+7F72

(***************************************************************************)
(* user_service: departments and logged-in users                           *)
(***************************************************************************)
DEFAULT_DEPARTMENTS ==
  <<
     [id |-> <<"d", "e", "v">>,
      name |-> <<"yan", "fa", "bu">>,
      description |-> <<"chan", "pin", "yan", "fa", "tuan", "dui">>],
     [id |-> <<"t", "e", "s", "t">>,
      name |-> <<"ce", "shi", "bu">>,
      description |-> <<"zhi", "liang", "bao", "zhang", "tuan", "dui">>],
     [id |-> <<"s", "e", "c">>,
      name |-> <<"an", "quan", "bu">>,
      description |-> <<"an", "quan", "tuan", "dui">>],
     [id |-> <<"o", "p", "s">>,
      name |-> <<"yun", "wei", "bu">>,
      description |-> <<"yun", "wei", "tuan", "dui">>],
     [id |-> <<"p", "r", "o", "d", "u", "c", "t">>,
      name |-> <<"chan", "pin", "bu">>,
      description |-> <<"chan", "pin", "tuan", "dui">>],
     [id |-> <<"h", "r">>,
      name |-> <<"ren", "li", "zi", "yuan", "bu">>,
      description |-> <<"H", "R", "tuan", "dui">>],
     [id |-> <<"f", "i", "n", "a", "n", "c", "e">>,
      name |-> <<"cai", "wu", "bu">>,
      description |-> <<"cai", "wu", "tuan", "dui">>],
     [id |-> <<"l", "e", "g", "a", "l">>,
      name |-> <<"fa3", "wu", "bu">>,
      description |-> <<"fa3", "wu", "tuan", "dui">>]
  >>

\* the keys of every department dict, in insertion order
DeptKeys == <<<<"i", "d">>, <<"n", "a", "m", "e">>,
              <<"d", "e", "s", "c", "r", "i", "p", "t", "i", "o", "n">>>>

\* repr of a str inside a dict repr
Quoted(s) == <<"'">> \o s \o <<"'">>

\* str(dept) as the f-string of filter_expr renders a department dict
DeptRepr(d) ==
  <<"{">> \o Quoted(DeptKeys[1]) \o <<":", " ">> \o Quoted(d.id) \o <<",", " ">>
         \o Quoted(DeptKeys[2]) \o <<":", " ">> \o Quoted(d.name) \o <<",", " ">>
         \o Quoted(DeptKeys[3]) \o <<":", " ">> \o Quoted(d.description) \o <<"}">>

DictV(d) == [tag |-> "dict", s |-> DeptRepr(d)]

\* UserService.get_departments
get_departments == DEFAULT_DEPARTMENTS

\* `dept == parsed_team or parsed_team in dept` for a department dict:
\* a dict never equals a str, and `in` tests the dict's keys
DeptMatches(dept, parsed_team) ==
  \E i \in 1..Len(DeptKeys) : DeptKeys[i] = parsed_team

TeamDev == <<"yan", "fa", "bu">>
TeamTest == <<"ce", "shi", "bu">>

\* the login token of the one logged-in user, a member of TeamTest
UserToken == <<"t">>
BearerPrefix == <<"B", "e", "a", "r", "e", "r", " ">>

\* UserService.get_user_by_token: the user's department, None if unknown
get_user_by_token(token) ==
  IF token = UserToken THEN StrV(TeamTest) ELSE NoneV

(***************************************************************************)
(* QueryEnhancer                                                           *)
(***************************************************************************)
\* self.synonyms in insertion order, with the first synonym of each word
synonyms ==
  <<
     [word |-> <<"wen", "ti">>, first |-> <<"yi", "wen">>],
     [word |-> <<"fang", "fa3">>, first |-> <<"fang", "shi4">>],
     [word |-> <<"pei", "zhi4">>, first |-> <<"she", "zhi4">>],
     [word |-> <<"cuo", "wu4">>, first |-> <<"yi4", "chang">>],
     [word |-> <<"wen2", "dang">>, first |-> <<"wen2", "jian">>],
     [word |-> <<"xi", "tong">>, first |-> <<"ping", "tai">>],
     [word |-> <<"yong", "hu">>, first |-> <<"shi3", "yong", "zhe">>],
     [word |-> <<"shu", "ju">>, first |-> <<"xin", "xi1">>]
  >>

\* stop words of _remove_stopwords
RemoveStopwords ==
  {<<"de">>, <<"shi5">>, <<"zai">>, <<"you">>, <<"he">>, 
   <<"le">>, <<"yu">>, <<"dui4">>, <<"zhe4">>, <<"na">>}

\* stop words of _extract_keywords
KeywordStopwords ==
  {<<"de">>, <<"shi5">>, <<"zai">>, <<"you">>, <<"he">>,
   <<"le">>, <<"yu">>, <<"dui4">>, <<"zhe4">>, <<"na">>,
   <<"ru", "he2">>, <<"zen", "me">>, <<"shen", "me">>, <<"wei4", "shen", "me">>}

\* QueryEnhancer._synonym_expansion: first dictionary word found in the
\* query, its first occurrence replaced by the first synonym
_synonym_expansion(query) ==
  LET hits == {i \in 1..Len(synonyms) : contains(synonyms[i].word, query)}
  IN  IF hits = {} THEN query
      ELSE LET i == CHOOSE j \in hits : \A k \in hits : j <= k
           IN  replace(query, synonyms[i].word, synonyms[i].first, 1)

\* filter of a sequence, order kept
RECURSIVE SelectChars(_, _)
SelectChars(s, drop) ==
  IF s = <<>> THEN <<>>
  ELSE IF <<Head(s)>> \in drop \/ IsSpace(Head(s)) THEN SelectChars(Tail(s), drop)
  ELSE <<<<Head(s)>>>> \o SelectChars(Tail(s), drop)

\* QueryEnhancer._extract_keywords: the characters of the query that are no
\* stop word and not blank, at most five
_extract_keywords(query) == Take(SelectChars(query, KeywordStopwords), 5)

\* QueryEnhancer._remove_stopwords: delete every stop word, then strip
RECURSIVE RemoveAll(_, _)
RemoveAll(s, sws) ==
  IF sws = {} THEN s
  ELSE LET sw == CHOOSE w \in sws : TRUE
       IN  RemoveAll(replace(s, sw, <<>>, -1), sws \ {sw})

_remove_stopwords(query) == strip(RemoveAll(query, RemoveStopwords))

\* QueryEnhancer.enhance_query
enhance_query(query, num_variations) ==
  LET synonym_query == _synonym_expansion(query)
      v1 == IF synonym_query # <<>> /\ synonym_query # query
            THEN <<query, synonym_query>> ELSE <<query>>
      keywords == _extract_keywords(query)
      keyword_query == join(keywords)
      v2 == IF keywords # <<>> /\ keyword_query # query
            THEN Append(v1, keyword_query) ELSE v1
      clean_query == _remove_stopwords(query)
      v3 == IF clean_query # <<>> /\ clean_query # query
            THEN Append(v2, clean_query) ELSE v2
  IN  Take(dedup(v3), num_variations + 1)

(***************************************************************************)
(* The corpus: relational store, content files and vector store            *)
(***************************************************************************)
\* scores the vector store reports (cosine similarity, ticks of 1e-5)
Scores == {50000, 90001, 90004}

\* probabilities the cross-encoder reports (sigmoid output, ticks of 1e-5)
RerankScores == {30000, 80000}

\* score of every text-fallback match: 0.95
TextScore == 95000

\* rows of the documents table
Documents ==
  <<[id |-> "d0", filename |-> "draft.md", created_at |-> "t0",
     status |-> "processing", team_id |-> TeamDev],
    [id |-> "d1", filename |-> "deploy.md", created_at |-> "t1",
     status |-> "completed", team_id |-> TeamDev],
    [id |-> "d2", filename |-> "guide.md", created_at |-> "t2",
     status |-> "completed", team_id |-> TeamTest]>>

\* uploads/<id>_content.json of the documents that have one
ContentFiles ==
  [d \in {"d1", "d2"} |->
     IF d = "d1"
     THEN [full_text |-> <<"bu", "shu3", " ">>,
           chunks |-> <<<<"bu", "shu3">>, <<" ">>>>]
     ELSE [full_text |-> <<"A", "bu", "shu3">>,
           chunks |-> <<<<"A", "bu", "shu3">>>>]]

\* entities of the askme_documents collection; d3 has no documents row
Pool ==
  {[document_id |-> "d1", team_id |-> TeamDev, chunk_id |-> "c1",
    content |-> <<"bu", "shu3">>],
   [document_id |-> "d1", team_id |-> TeamDev, chunk_id |-> "c2",
    content |-> <<" ">>],
   [document_id |-> "d3", team_id |-> TeamTest, chunk_id |-> "c3",
    content |-> <<"wen", "ti">>]}

\* f'team_id == "{search_team}"'
FilterExpr(team) ==
  StrV(<<"t", "e", "a", "m", "_", "i", "d", " ", "=", "=", " ", "\"">>
       \o team.s \o <<"\"">>)

\* the entities that satisfy a filter expression
Matching(filter_expr) ==
  IF filter_expr = NoneV THEN Pool
  ELSE {c \in Pool : FilterExpr(StrV(c.team_id)) = filter_expr}

\* a search hit: the entity's output fields plus hit.score
Hit(c, sc) ==
  [document_id |-> c.document_id, team_id |-> c.team_id,
   chunk_id |-> c.chunk_id, content |-> c.content, score |-> sc,
   has_rerank |-> FALSE, rerank_score |-> 0]

\* MilvusClient.search_vectors: what a successful search may return, at most
\* top_k distinct matching entities, best score first
search_vectors(top_k, filter_expr) ==
  LET hits == {Hit(c, sc) : c \in Matching(filter_expr), sc \in Scores}
      n == IF top_k < Cardinality(Matching(filter_expr))
           THEN top_k ELSE Cardinality(Matching(filter_expr))
  IN  {h \in UNION {[1..k -> hits] : k \in 0..n} :
         /\ \A i, j \in 1..Len(h) : i < j => h[i].chunk_id # h[j].chunk_id
         /\ \A i \in 1..(Len(h) - 1) : h[i].score >= h[i + 1].score}

\* Database.fetchone("SELECT filename, created_at FROM documents WHERE id = ?")
fetchone(doc_id) ==
  LET rows == {i \in 1..Len(Documents) : Documents[i].id = doc_id}
  IN  IF rows = {} THEN [found |-> FALSE, filename |-> "", created_at |-> ""]
      ELSE LET r == Documents[CHOOSE i \in rows : TRUE]
           IN  [found |-> TRUE, filename |-> r.filename,
                created_at |-> r.created_at]

\* Database.fetchall("SELECT ... FROM documents WHERE status = 'completed'")
fetchall_completed == SelectSeq(Documents, LAMBDA r : r.status = "completed")

(***************************************************************************)
(* list.sort(key = score, reverse = True): stable, best score first        *)
(***************************************************************************)
RECURSIVE InsertDesc(_, _)
InsertDesc(sorted, x) ==
  IF sorted = <<>> THEN <<x>>
  ELSE IF Head(sorted).score >= x.score
       THEN <<Head(sorted)>> \o InsertDesc(Tail(sorted), x)
       ELSE <<x>> \o sorted

\* mutant of SortDesc: the list is left in its input order
SortDesc_Unsorted(xs) == xs

RECURSIVE SortDesc(_)
SortDesc(xs) ==
  IF xs = <<>> THEN <<>>
  ELSE InsertDesc(SortDesc(SubSeq(xs, 1, Len(xs) - 1)), xs[Len(xs)])

(***************************************************************************)
(* Reranker.rerank                                                         *)
(***************************************************************************)
\* the documents whose content is non-empty after strip(), order kept
ValidDocs(documents) == SelectSeq(documents, LAMBDA d : strip(d.content) # <<>>)

\* the smaller of two lengths, as zip stops at the shorter list
Min(a, b) == IF a < b THEN a ELSE b

\* the [query, content[:512]] pairs given to the tokenizer, one per document
\* with content
Pairs(query, documents) ==
  [i \in 1..Len(ValidDocs(documents)) |->
     <<query, Take(ValidDocs(documents)[i].content, 512)>>]

\* mutant of ScoredDocs: the scores are zipped with all the documents
ScoredDocs_AllDocs(documents, scores) ==
  [i \in 1..Min(Len(documents), Len(scores)) |->
     [doc |-> documents[i], score |-> scores[i]]]

\* list(zip(valid_docs, scores))
ScoredDocs(documents, scores) ==
  [i \in 1..Min(Len(ValidDocs(documents)), Len(scores)) |->
     [doc |-> ValidDocs(documents)[i], score |-> scores[i]]]

\* Reranker.rerank(query, documents, "content", top_k).  `raises` tells
\* whether tokenizer or model raise; `scores` is the model's output, one
\* sigmoid score per pair
rerank(query, documents, top_k, raises, scores) ==
  IF documents = <<>> THEN <<>>
  ELSE IF strip(query) = <<>> THEN Take(documents, top_k)
  ELSE IF raises \/ ValidDocs(documents) = <<>> THEN Take(documents, top_k)
  ELSE LET scored_docs == SortDesc(ScoredDocs(documents, scores))
           top == Take(scored_docs, top_k)
       IN  [i \in 1..Len(top) |->
              [top[i].doc EXCEPT !.has_rerank = TRUE,
                                 !.rerank_score = top[i].score]]

(***************************************************************************)
(* State of one search request                                             *)
(***************************************************************************)
VARIABLES
  pc,               \* the handler's position
  req,              \* q, limit, team, use_rerank, use_query_enhance,
                    \* recall_size, authorization
  actual_team,      \* team after the "/scope" syntax
  actual_query,     \* query after the "/scope" syntax
  search_team,      \* actual_team or user_department
  filter_expr,      \* filter passed to the vector store
  queries,          \* query variants
  qi,               \* index of the variant the recall loop is at
  seen_chunk_ids,
  all_candidates,
  final_candidates,
  search_type,
  ci,               \* index of the candidate the result loop is at
  seen_docs,
  results,
  response,         \* what the caller receives
  calls,            \* calls made to collaborators, in order
  log,              \* messages logged at warning or error level
  reranker,         \* module-level reranker singleton
  outscored         \* history of the recall loop: the chunk_ids of which
                    \* some hit in a search_results had a higher score than
                    \* the candidate kept

searchVars ==
  <<pc, req, actual_team, actual_query, search_team, filter_expr, queries, qi,
    seen_chunk_ids, all_candidates, final_candidates, search_type, ci,
    seen_docs, results, response, calls, log, reranker, outscored>>

(***************************************************************************)
(* State of one call of the fusion functions (HybridSearchResult.rrf_fusion *)
(* and ResultFusion.fuse_multiple_sources)                                 *)
(***************************************************************************)
VARIABLES
  fusion_pc,        \* "idle", or "input" once the two lists are given
  vector_results,   \* the vector channel's list, best first
  keyword_results,  \* the keyword channel's list, best first
  rrf_fused,        \* what rrf_fusion returned: [called, results]
  fused_results     \* what fuse_multiple_sources returned: [called, results]

fusionVars ==
  <<fusion_pc, vector_results, keyword_results, rrf_fused, fused_results>>

NotCalled == [called |-> FALSE, results |-> <<>>]

\* no fusion call is in progress
FusionIdle ==
  /\ fusion_pc = "idle"
  /\ vector_results = <<>>
  /\ keyword_results = <<>>
  /\ rrf_fused = NotCalled
  /\ fused_results = NotCalled

(***************************************************************************)
(* State of one hybrid search (HybridSearchEngine.search) or one hybrid    *)
(* retrieval (DocumentRetriever._hybrid_retrieve)                          *)
(***************************************************************************)
VARIABLES
  hy_pc,            \* the call's position
  hy_req,           \* op, query, top_k, keyword_engine
  store,            \* the vector store's entities for the query, best first
  vector_channel,   \* outcome of the vector channel: [raised, results]
  keyword_channel,  \* outcome of the keyword channel: [raised, results]
  hy_response,      \* what the caller receives
  hy_log            \* messages logged at warning or error level

hybridVars ==
  <<hy_pc, hy_req, store, vector_channel, keyword_channel, hy_response,
    hy_log>>

NoResponse == [status |-> 0]

NoChannel == [raised |-> FALSE, results |-> <<>>]

\* no hybrid call is in progress
HybridIdle ==
  /\ hy_pc = "idle"
  /\ hy_req = [op |-> "none"]
  /\ store = <<>>
  /\ vector_channel = NoChannel
  /\ keyword_channel = NoChannel
  /\ hy_response = NoResponse
  /\ hy_log = {}

(***************************************************************************)
(* State of a caller of the ranking stages (ResultRanker.rank_results and  *)
(* DiversityEnhancer.enhance_diversity)                                    *)
(***************************************************************************)
VARIABLES
  heap,             \* the caller's SearchResult objects, by reference
  rk_results,       \* the caller's list of references
  now,              \* datetime.now(), in units of 1e6 seconds
  runs              \* the stage calls made so far, with what they returned

rankVars == <<heap, rk_results, now, runs>>

\* no caller holds results to rank
RankIdle ==
  /\ heap = <<>>
  /\ rk_results = <<>>
  /\ now = 0
  /\ runs = <<>>

(***************************************************************************)
(* State of a caller of Reranker.rerank and Reranker.compute_scores        *)
(***************************************************************************)
VARIABLES
  rr_req,           \* query, documents, top_k
  model_score,      \* the cross-encoder: sigmoid score of a pair's content
  rr_result,        \* what rerank returned: [called, raised, results]
  cs_result         \* what compute_scores returned: [called, raised, scores]

rerankVars == <<rr_req, model_score, rr_result, cs_result>>

NoRerank == [called |-> FALSE, raised |-> FALSE, results |-> <<>>]

NoScores == [called |-> FALSE, raised |-> FALSE, scores |-> <<>>]

\* no rerank call is in progress
RerankIdle ==
  /\ rr_req = [query |-> <<>>, documents |-> <<>>, top_k |-> 0]
  /\ model_score = <<>>
  /\ rr_result = NoRerank
  /\ cs_result = NoScores

(***************************************************************************)
(* State of a caller of QueryEnhancer.enhance_query                        *)
(***************************************************************************)
VARIABLES
  eh_req,           \* query and num_variations
  eh_result         \* what enhance_query returned: [called, variations]

enhanceVars == <<eh_req, eh_result>>

NoVariations == [called |-> FALSE, variations |-> <<>>]

\* no enhance_query call is in progress
EnhanceIdle ==
  /\ eh_req = [query |-> <<>>, num_variations |-> 0]
  /\ eh_result = NoVariations

(***************************************************************************)
(* State of a caller of the weighted (score) fusion functions              *)
(***************************************************************************)
VARIABLES
  wf_vector,        \* the vector channel's result list
  wf_keyword,       \* the keyword channel's result list
  wf_weighted,      \* what HybridSearchResult.weighted_fusion returned
  wf_scored         \* what ResultFusion._score_fusion returned

weightedVars == <<wf_vector, wf_keyword, wf_weighted, wf_scored>>

\* no weighted fusion is in progress
WeightedIdle ==
  /\ wf_vector = <<>>
  /\ wf_keyword = <<>>
  /\ wf_weighted = NotCalled
  /\ wf_scored = NotCalled

(***************************************************************************)
(* State of a caller of ResultRanker's score components                    *)
(***************************************************************************)
VARIABLES
  sc_result,        \* the SearchResult that is scored
  sc_now,           \* datetime.now() of the call
  sc_scores         \* [called, components, final_score]

scoreVars == <<sc_result, sc_now, sc_scores>>

NoComponents == [called |-> FALSE]

\* no result is being scored
ScoreIdle ==
  /\ sc_result = [k \in {} |-> 0]
  /\ sc_now = 0
  /\ sc_scores = NoComponents

(***************************************************************************)
(* State of the document task queue                                        *)
(***************************************************************************)
VARIABLES
  tq_tasks,         \* TaskQueue._tasks: the Task objects, task n at index n
  tq_queue,         \* TaskQueue._queue: the task_ids waiting for a worker
  tq_workers,       \* per worker thread: its position in _worker_loop and
                    \* its local task_id
  tq_cancel,        \* the thread calling cancel_task: its position and its
                    \* argument
  tq_returned       \* history: the task_ids for which a cancel_task call
                    \* returned True

queueVars == <<tq_tasks, tq_queue, tq_workers, tq_cancel, tq_returned>>

NoCancel == [pc |-> "idle", task_id |-> 0]

\* the task queue has not been created
QueueIdle ==
  /\ tq_tasks = <<>>
  /\ tq_queue = <<>>
  /\ tq_workers = <<>>
  /\ tq_cancel = NoCancel
  /\ tq_returned = {}

\* the sub-models of single components
componentVars == <<enhanceVars, weightedVars, scoreVars, queueVars>>

ComponentsIdle == EnhanceIdle /\ WeightedIdle /\ ScoreIdle /\ QueueIdle

\* query strings of the explored requests
Queries ==
  {<<>>,
   <<" ">>,
   <<"/", "yan", "fa", "bu">>,
   <<"/", "yan", "fa", "bu", " ", "bu", "shu3">>,
   <<"/", "yan", " ", "bu", "shu3">>,
   <<"/", "n", "a", "m", "e", " ", "bu", "shu3">>,
   <<"bu", "shu3">>,
   <<"A">>,
   <<"wen", "ti", "de">>}

Requests ==
  [q : Queries,
   limit : 0..MaxLimit,
   team : {NoneV, StrV(TeamDev)},
   use_rerank : BOOLEAN,
   use_query_enhance : BOOLEAN,
   recall_size : 1..MaxRecall,
   authorization : {NoneV, StrV(BearerPrefix \o UserToken), StrV(<<"z">>)}]

InitSearch ==
  /\ pc = "parse"
  /\ req \in Requests
  /\ actual_team = NoneV
  /\ actual_query = <<>>
  /\ search_team = NoneV
  /\ filter_expr = NoneV
  /\ queries = <<>>
  /\ qi = 1
  /\ seen_chunk_ids = {}
  /\ all_candidates = <<>>
  /\ final_candidates = <<>>
  /\ search_type = ""
  /\ ci = 1
  /\ seen_docs = {}
  /\ results = <<>>
  /\ response = NoResponse
  /\ calls = <<>>
  /\ log = {}
  /\ reranker = "None"
  /\ outscored = {}

\* search_documents, lines 89-126: search syntax, user, filter
ParseRequest ==
  /\ pc = "parse"
  /\ UNCHANGED <<fusionVars, hybridVars, rankVars, rerankVars, componentVars>>
  /\ UNCHANGED outscored
  /\ LET scoped == ~Truthy(req.team) /\ startswith(req.q, <<"/">>)
         parts == split1(req.q)
         parsed_team == Tail(parts[1])
         departments == get_departments
         hits == {i \in 1..Len(departments) :
                    DeptMatches(departments[i], parsed_team)}
         matched_dept ==
           IF hits = {} THEN NoneV
           ELSE DictV(departments[CHOOSE i \in hits : \A j \in hits : i <= j])
         team1 == IF scoped THEN PyOr(matched_dept, StrV(parsed_team))
                  ELSE req.team
         query1 == IF scoped
                   THEN (IF Len(parts) > 1 THEN parts[2] ELSE <<>>)
                   ELSE req.q
         auth == req.authorization
         token == IF startswith(auth.s, BearerPrefix)
                  THEN replace(auth.s, BearerPrefix, <<>>, -1) ELSE auth.s
         user_department ==
           IF Truthy(auth) THEN get_user_by_token(token) ELSE NoneV
         team2 == PyOr(team1, user_department)
     IN  /\ actual_team' = team1
         /\ actual_query' = query1
         /\ search_team' = team2
         /\ filter_expr' = IF Truthy(team2) THEN FilterExpr(team2) ELSE NoneV
         /\ calls' = calls
              \o (IF scoped THEN <<"get_departments">> ELSE <<>>)
              \o (IF Truthy(auth) THEN <<"get_user_by_token">> ELSE <<>>)
  /\ pc' = "begin_recall"
  /\ UNCHANGED <<req, queries, qi, seen_chunk_ids, all_candidates,
                 final_candidates, search_type, ci, seen_docs, results,
                 response, log, reranker>>

\* a logged message; `cause` names the call that raised
Logged(msg, cause) == [msg |-> msg, cause |-> cause]

\* mutant of ToFallback: the exception is logged but no fallback answers
ToFallback_NoAnswer(cause) ==
  /\ pc' = "done"
  /\ log' = log \cup {Logged("vector search failed, text fallback", cause)}

\* the inner `except Exception`, lines 257-260: log the exception and
\* continue with the text-search fallback
ToFallback(cause) ==
  /\ pc' = "fallback"
  /\ log' = log \cup {Logged("vector search failed, text fallback", cause)}

\* lines 131-141: collaborator handles and query enhancement
BeginRecall ==
  /\ pc = "begin_recall"
  /\ UNCHANGED <<fusionVars, hybridVars, rankVars, rerankVars, componentVars>>
  /\ UNCHANGED outscored
  /\ \/ \* EmbeddingEncoder() or MilvusClient() cannot be constructed
        /\ \E c \in {<<"get_embedding_encoder">>,
                     <<"get_embedding_encoder", "get_milvus_client">>} :
             /\ calls' = calls \o c
             /\ ToFallback(c[Len(c)])
        /\ UNCHANGED queries
     \/ /\ calls' = calls \o <<"get_embedding_encoder", "get_milvus_client">>
        /\ queries' = IF req.use_query_enhance /\ strip(actual_query) # <<>>
                      THEN enhance_query(actual_query, 2)
                      ELSE <<actual_query>>
        /\ pc' = "recall"
        /\ UNCHANGED log
  /\ UNCHANGED <<req, actual_team, actual_query, search_team, filter_expr, qi,
                 seen_chunk_ids, all_candidates, final_candidates, search_type,
                 ci, seen_docs, results, response, reranker>>

\* lines 163-167: the hits whose chunk_id is not yet seen
RECURSIVE NewHits(_, _)
NewHits(search_results, seen) ==
  IF search_results = <<>> THEN <<>>
  ELSE LET r == Head(search_results)
       IN  IF r.chunk_id # "" /\ r.chunk_id \notin seen
           THEN <<r>> \o NewHits(Tail(search_results), seen \cup {r.chunk_id})
           ELSE NewHits(Tail(search_results), seen)

\* the history of the outscored chunk_ids after search_results: `kept` are
\* the candidates after the hits were collected
Outscored(before, kept, search_results) ==
  before \cup
    {kept[i].chunk_id : i \in {k \in 1..Len(kept) :
       \E j \in 1..Len(search_results) :
         /\ search_results[j].chunk_id = kept[k].chunk_id
         /\ search_results[j].score > kept[k].score}}

\* lines 146-167: one iteration of the recall loop
RecallOne ==
  /\ pc = "recall"
  /\ UNCHANGED <<fusionVars, hybridVars, rankVars, rerankVars, componentVars>>
  /\ qi <= Len(queries)
  /\ LET query_text == queries[qi]
     IN  \/ \* blank variant: continue
            /\ strip(query_text) = <<>>
            /\ qi' = qi + 1
            /\ UNCHANGED <<pc, seen_chunk_ids, all_candidates, calls, log,
                           outscored>>
         \/ \* encoder.encode_single raises
            /\ strip(query_text) # <<>>
            /\ calls' = Append(calls, "encode_single")
            /\ ToFallback("encode_single")
            /\ UNCHANGED <<qi, seen_chunk_ids, all_candidates, outscored>>
         \/ \* milvus.search_vectors raises
            /\ strip(query_text) # <<>>
            /\ calls' = calls \o <<"encode_single", "search_vectors">>
            /\ ToFallback("search_vectors")
            /\ UNCHANGED <<qi, seen_chunk_ids, all_candidates, outscored>>
         \/ /\ strip(query_text) # <<>>
            /\ calls' = calls \o <<"encode_single", "search_vectors">>
            /\ \E search_results \in search_vectors(req.recall_size, filter_expr) :
                 LET new == NewHits(search_results, seen_chunk_ids)
                 IN  /\ all_candidates' = all_candidates \o new
                     /\ seen_chunk_ids' = seen_chunk_ids
                          \cup {new[i].chunk_id : i \in 1..Len(new)}
                     /\ outscored' = Outscored(outscored, all_candidates \o new,
                                             search_results)
            /\ qi' = qi + 1
            /\ UNCHANGED <<pc, log>>
  /\ UNCHANGED <<req, actual_team, actual_query, search_team, filter_expr,
                 queries, final_candidates, search_type, ci, seen_docs,
                 results, response, reranker>>

\* lines 169-179: end of the recall loop; no candidate, empty response
EndRecall ==
  /\ pc = "recall"
  /\ UNCHANGED <<fusionVars, hybridVars, rankVars, rerankVars, componentVars>>
  /\ outscored' = {}          \* the history ends with the recall loop
  /\ qi > Len(queries)
  /\ IF all_candidates = <<>>
     THEN /\ response' = [status |-> 200, query |-> req.q, total |-> 0,
                          results |-> <<>>, search_type |-> "vector",
                          enhanced |-> TRUE]
          /\ pc' = "done"
     ELSE /\ pc' = "rerank"
          /\ UNCHANGED response
  /\ UNCHANGED <<req, actual_team, actual_query, search_team, filter_expr,
                 queries, qi, seen_chunk_ids, all_candidates, final_candidates,
                 search_type, ci, seen_docs, results, calls, log, reranker>>

\* get_reranker_instance, lines 49-56, and the rerank stage, lines 181-199
Rerank ==
  /\ pc = "rerank"
  /\ UNCHANGED <<fusionVars, hybridVars, rankVars, rerankVars, componentVars>>
  /\ UNCHANGED outscored
  /\ \E loaded \in (IF reranker = "None" THEN BOOLEAN ELSE {TRUE}) :
       /\ reranker' = IF loaded THEN "loaded" ELSE "None"
       /\ IF req.use_rerank /\ loaded /\ Len(all_candidates) > 0
          THEN \E raises \in BOOLEAN :
               \E scores \in [1..Len(ValidDocs(all_candidates)) -> RerankScores] :
                 /\ final_candidates' =
                      rerank(actual_query, all_candidates, req.limit, raises, scores)
                 /\ search_type' = "vector_reranked"
                 /\ calls' = calls
                      \o (IF reranker = "None" THEN <<"get_reranker">> ELSE <<>>)
                      \o <<"rerank">>
                 /\ log' = log \cup (IF raises THEN {Logged("rerank failed", "rerank")}
                                     ELSE {})
                 /\ UNCHANGED all_candidates
          ELSE /\ all_candidates' = SortDesc(all_candidates)
               /\ final_candidates' = Take(SortDesc(all_candidates), req.limit)
               /\ search_type' = "vector"
               /\ calls' = calls
                    \o (IF reranker = "None" THEN <<"get_reranker">> ELSE <<>>)
               /\ log' = log \cup
                    (IF loaded THEN {}
                     ELSE {Logged("reranker load failed, rerank skipped",
                                  "get_reranker")})
  /\ pc' = "build"
  /\ UNCHANGED <<req, actual_team, actual_query, search_team, filter_expr,
                 queries, qi, seen_chunk_ids, ci, seen_docs, results, response>>

\* line 218: candidate.get("rerank_score") or candidate.get("score", 0.9)
FinalScore(candidate) ==
  IF candidate.has_rerank /\ candidate.rerank_score # 0
  THEN candidate.rerank_score ELSE candidate.score

\* lines 220-239: the result built for a candidate and its documents row
ResultOf(candidate, doc_record, stype) ==
  [document_id |-> candidate.document_id,
   filename |-> IF doc_record.found THEN doc_record.filename ELSE "Unknown",
   score |-> Round4(FinalScore(candidate)),
   matches |-> <<Take(candidate.content, 500)>>,
   created_at |-> IF doc_record.found THEN doc_record.created_at ELSE "",
   search_type |-> stype,
   chunk_id |-> candidate.chunk_id]

\* mutant of IsNewDoc: seen_docs is not consulted
IsNewDoc_NoSeen(doc_id, seen) == doc_id # ""

\* line 208: `doc_id and doc_id not in seen_docs`
IsNewDoc(doc_id, seen) == doc_id # "" /\ doc_id \notin seen

\* lines 205-239: one iteration of the result loop
BuildOne ==
  /\ pc = "build"
  /\ UNCHANGED <<fusionVars, hybridVars, rankVars, rerankVars, componentVars>>
  /\ UNCHANGED outscored
  /\ ci <= Len(final_candidates)
  /\ LET candidate == final_candidates[ci]
         doc_id == candidate.document_id
     IN  \/ \* a document already in the results, or no document id
            /\ ~IsNewDoc(doc_id, seen_docs)
            /\ ci' = ci + 1
            /\ UNCHANGED <<pc, seen_docs, results, calls, log>>
         \/ \* db.fetchone raises
            /\ IsNewDoc(doc_id, seen_docs)
            /\ calls' = Append(calls, "fetchone")
            /\ ToFallback("fetchone")
            /\ seen_docs' = seen_docs \cup {doc_id}
            /\ UNCHANGED <<ci, results>>
         \/ /\ IsNewDoc(doc_id, seen_docs)
            /\ calls' = Append(calls, "fetchone")
            /\ seen_docs' = seen_docs \cup {doc_id}
            /\ results' = Append(results,
                                 ResultOf(candidate, fetchone(doc_id), search_type))
            /\ ci' = ci + 1
            /\ UNCHANGED <<pc, log>>
  /\ UNCHANGED <<req, actual_team, actual_query, search_team, filter_expr,
                 queries, qi, seen_chunk_ids, all_candidates, final_candidates,
                 search_type, response, reranker>>

\* lines 241-255: sort the results and return
Respond ==
  /\ pc = "build"
  /\ UNCHANGED <<fusionVars, hybridVars, rankVars, rerankVars, componentVars>>
  /\ UNCHANGED outscored
  /\ ci > Len(final_candidates)
  /\ results' = SortDesc(results)
  /\ response' = [status |-> 200,
                  query |-> req.q,
                  actual_query |-> actual_query,
                  total |-> Len(results),
                  results |-> Take(SortDesc(results), req.limit),
                  search_type |-> search_type,
                  enhanced |-> (req.use_rerank \/ req.use_query_enhance),
                  recall_count |-> Len(all_candidates),
                  query_variations |->
                    IF req.use_query_enhance THEN queries ELSE <<>>]
  /\ pc' = "done"
  /\ UNCHANGED <<req, actual_team, actual_query, search_team, filter_expr,
                 queries, qi, seen_chunk_ids, all_candidates, final_candidates,
                 search_type, ci, seen_docs, calls, log, reranker>>

\* line 294: the snippet of a matching chunk
Snippet(chunk_content) ==
  IF Len(chunk_content) > 300
  THEN Take(chunk_content, 300) \o <<".", ".", ".">> ELSE chunk_content

\* lines 289-296: the snippets of the first three chunks containing the query
Matches(query_lower, chunks) ==
  LET hit == Take(SelectSeq(chunks,
                            LAMBDA c : contains(query_lower, lower(c))), 3)
  IN  [i \in 1..Len(hit) |-> Snippet(hit[i])]

\* mutant of TextHit: the query is not compared with the text
TextHit_NoQueryFilter(q, doc_record, readable) ==
  /\ doc_record.id \in DOMAIN ContentFiles
  /\ doc_record.id \in readable

\* lines 276-308: does a completed document yield a text result
TextHit(q, doc_record, readable) ==
  /\ doc_record.id \in DOMAIN ContentFiles
  /\ doc_record.id \in readable
  /\ contains(lower(q), lower(ContentFiles[doc_record.id].full_text))
  /\ Matches(lower(q), ContentFiles[doc_record.id].chunks) # <<>>

\* _text_search_fallback, lines 269-310: the results; `readable` are the
\* documents whose content file exists and loads
TextResults(q, limit, readable) ==
  LET rows == SelectSeq(fetchall_completed,
                        LAMBDA r : TextHit(q, r, readable))
      res == [i \in 1..Len(rows) |->
                [document_id |-> rows[i].id,
                 filename |-> rows[i].filename,
                 score |-> TextScore,
                 matches |-> Matches(lower(q), ContentFiles[rows[i].id].chunks),
                 created_at |-> rows[i].created_at,
                 search_type |-> "text"]]
  IN  Take(SortDesc(res), limit)

\* lines 257-264 and _text_search_fallback: text search after a failure of
\* the vector path; a failure of the fallback is answered by HTTP 500
Fallback ==
  /\ pc = "fallback"
  /\ UNCHANGED <<fusionVars, hybridVars, rankVars, rerankVars, componentVars>>
  /\ UNCHANGED outscored
  /\ calls' = Append(calls, "fetchall")
  /\ \/ \* db.fetchall raises
        /\ response' = [status |-> 500]
        /\ log' = log \cup {Logged("search failed", "fetchall")}
     \/ \E readable \in SUBSET DOMAIN ContentFiles :
          /\ response' =
               LET res == TextResults(req.q, req.limit, readable)
               IN  [status |-> 200, query |-> req.q, total |-> Len(res),
                    results |-> res, search_type |-> "text",
                    enhanced |-> FALSE]
          /\ log' = log \cup
               (IF readable = DOMAIN ContentFiles THEN {}
                ELSE {Logged("content file unreadable", "open")})
  /\ pc' = "done"
  /\ UNCHANGED <<req, actual_team, actual_query, search_team, filter_expr,
                 queries, qi, seen_chunk_ids, all_candidates, final_candidates,
                 search_type, ci, seen_docs, results, reranker>>

NextSearch ==
  \/ ParseRequest
  \/ BeginRecall
  \/ RecallOne
  \/ EndRecall
  \/ Rerank
  \/ BuildOne
  \/ Respond
  \/ Fallback

vars == <<searchVars, fusionVars, hybridVars, rankVars, rerankVars,
          componentVars>>

Init ==
  InitSearch /\ FusionIdle /\ HybridIdle /\ RankIdle /\ RerankIdle
    /\ ComponentsIdle

Next == NextSearch

Spec == Init /\ [][Next]_vars

(***************************************************************************)
(* Properties of search_documents                                          *)
(***************************************************************************)
Done == pc = "done"

\* the query that is embedded is empty or whitespace
BlankQuery == strip(actual_query) = <<>>

\* calls to the embedding encoder, vector store, reranker and metadata store
ExternalCalls ==
  SelectSeq(calls, LAMBDA c : c \in {"get_embedding_encoder", "get_milvus_client",
                                      "encode_single", "search_vectors",
                                      "get_reranker", "rerank",
                                      "fetchone", "fetchall"})

\* the vector path was left through the inner except clause because of `cause`
FellBackOn(cause) ==
  Logged("vector search failed, text fallback", cause) \in log

\* embedding the query or searching the vector store raised
RecallRaised == FellBackOn("encode_single") \/ FellBackOn("search_vectors")

RerankRaised == Logged("rerank failed", "rerank") \in log

RerankerNotLoaded ==
  Logged("reranker load failed, rerank skipped", "get_reranker") \in log

FallbackRaised == Logged("search failed", "fetchall") \in log

\* the response carries degraded = true
Degraded(r) == "degraded" \in DOMAIN r /\ r.degraded = TRUE

\* lines 202-239 without a failing lookup: the results of a candidate list
RECURSIVE BuildResults(_, _, _)
BuildResults(cands, seen, stype) ==
  IF cands = <<>> THEN <<>>
  ELSE LET c == Head(cands)
       IN  IF IsNewDoc(c.document_id, seen)
           THEN <<ResultOf(c, fetchone(c.document_id), stype)>>
                \o BuildResults(Tail(cands), seen \cup {c.document_id}, stype)
           ELSE BuildResults(Tail(cands), seen, stype)

\* lines 202-250: the results returned for a list of final candidates
ResponseResults(cands, limit, stype) ==
  Take(SortDesc(BuildResults(cands, {}, stype)), limit)

\* the result loop and the function above agree
BuildAgrees ==
  (Done /\ response.status = 200 /\ response.search_type # "text"
        /\ all_candidates # <<>>)
    => response.results = ResponseResults(final_candidates, req.limit, search_type)

\* C2 (as claimed): a request whose query is empty or whitespace, a bare
\* "/scope" included, ends in an InvalidQuery rejection (a 4xx answer) and
\* no external collaborator has been called for it.
C2_BlankQueryRejected ==
  (Done /\ BlankQuery)
    => (response.status \in 400..499 /\ ExternalCalls = <<>>)

C4_LaterFailureKeepsCandidates ==
  (Done /\ all_candidates # <<>> /\ ~RecallRaised)
    => /\ response.status = 200
       /\ response.search_type \in {"vector", "vector_reranked"}
       /\ \A i \in 1..Len(response.results) :
            response.results[i].chunk_id \in seen_chunk_ids

\* C5 (as claimed): when the reranker raised while scoring, the response has
\* the results, in the order, of the same request without reranking.
C5_RerankFailureAsNoRerank ==
  (Done /\ RerankRaised /\ response.status = 200
        /\ response.search_type = "vector_reranked")
    => response.results =
         ResponseResults(Take(SortDesc(all_candidates), req.limit),
                         req.limit, search_type)

C8_StrictlyDescending ==
  (Done /\ response.status = 200)
    => \A i \in 1..(Len(response.results) - 1) :
         response.results[i].score > response.results[i + 1].score

\* C8 (amended): the results are in non-increasing score order; neighbours
\* may have equal scores.
C8_NonIncreasing ==
  (Done /\ response.status = 200)
    => \A i \in 1..(Len(response.results) - 1) :
         response.results[i].score >= response.results[i + 1].score

\* C8 witness: the final sort moved the second candidate's result in front
\* of the first candidate's
C8_Witness ==
  /\ Done /\ response.status = 200 /\ response.search_type # "text"
  /\ Len(response.results) = 2
  /\ response.results[1].score > response.results[2].score
  /\ response.results[1].chunk_id = final_candidates[2].chunk_id

\* C9 (as claimed): a normal response to a request with use_rerank = true
\* whose reranker could not be loaded, or whose rerank call raised, carries
\* degraded = true.
C9_DegradedWhenRerankSkipped ==
  (Done /\ response.status = 200 /\ req.use_rerank
        /\ (RerankerNotLoaded \/ RerankRaised))
    => Degraded(response)

\* the operations a request asked of the embedding encoder, the vector
\* store, the reranker and the metadata store
ExternalOperations ==
  SelectSeq(calls, LAMBDA c : c \in {"encode_single", "search_vectors",
                                      "rerank", "fetchone", "fetchall"})

\* C18 (as claimed): a request makes at most (channels x variants) + 1 calls
\* to the external collaborators; the handler has one recall channel, the
\* vector store, and its variants are the queries of the recall loop.
C18_ExternalCallBudget ==
  Len(ExternalOperations) <= Len(queries) + 1

\* C19 (as claimed): when the recall call of one query variant raises, the
\* candidates the other variants returned are still aggregated and the
\* response is built from them.
C19_VariantFailureIsolated ==
  (Done /\ RecallRaised /\ all_candidates # <<>>)
    => /\ response.status = 200
       /\ response.search_type # "text"
       /\ \A i \in 1..Len(response.results) :
            \E j \in 1..Len(all_candidates) :
              all_candidates[j].chunk_id = response.results[i].chunk_id

\* the request used the "/scope text" syntax
Scoped == ~Truthy(req.team) /\ startswith(req.q, <<"/">>)

\* the scope token of a scoped request: the first whitespace-delimited
\* token without its slash
ScopeToken == Tail(split1(req.q)[1])

\* the departments whose name contains the scope token, compared without
\* regard to case
ScopeHits ==
  {i \in 1..Len(get_departments) :
     contains(lower(ScopeToken), lower(get_departments[i].name))}

\* C20 (as claimed): for a query that starts with '/', the scope is the
\* first department of the list that contains the scope token as a
\* substring, compared without regard to case, or the literal token if no
\* department does, and the rest of the query is the text that is searched.
C20_ScopeMatchedAsSubstring ==
  (Scoped /\ pc # "parse") =>
    /\ IF ScopeHits = {}
       THEN actual_team = StrV(ScopeToken)
       ELSE LET dept ==
                  get_departments[CHOOSE i \in ScopeHits :
                                    \A j \in ScopeHits : i <= j]
            IN  actual_team \in {StrV(dept.name), DictV(dept)}
    /\ actual_query = (IF Len(split1(req.q)) > 1 THEN split1(req.q)[2]
                       ELSE <<>>)

\* C23 (as claimed): a candidate recalled by several query variants keeps
\* the content of its first occurrence and carries the highest score of all
\* its occurrences.
C23_MaxScoreOfOccurrences ==
  \A i \in 1..Len(all_candidates) :
    all_candidates[i].chunk_id \notin outscored

\* the team a document was uploaded for: team_id of its documents row, or of
\* its entities in the collection when it has no row
TeamOfDocument(document_id) ==
  IF \E i \in 1..Len(Documents) : Documents[i].id = document_id
  THEN Documents[CHOOSE i \in 1..Len(Documents) :
                   Documents[i].id = document_id].team_id
  ELSE (CHOOSE c \in Pool : c.document_id = document_id).team_id

\* C27 (as claimed): when the request has an effective scope (the team
\* parameter, the "/scope" prefix or the caller's department), every result
\* of a normal response belongs to a document of that scope, the results of
\* the text-search fallback included.
C27_ResultsInScope ==
  (Done /\ response.status = 200 /\ Truthy(search_team))
    => \A i \in 1..Len(response.results) :
         TeamOfDocument(response.results[i].document_id) = search_team.s

\* the distinct document_ids of the recalled candidates
RecalledDocuments ==
  {all_candidates[i].document_id : i \in 1..Len(all_candidates)}

\* C28 (as claimed): when the recalled candidates cover at least `limit`
\* distinct document_ids, the response of the vector path contains exactly
\* `limit` results.
C28_ExactlyLimitResults ==
  (Done /\ response.status = 200 /\ response.search_type # "text"
        /\ Cardinality(RecalledDocuments) >= req.limit)
    => Len(response.results) = req.limit

(***************************************************************************)
(* Fusion of a vector and a keyword result list                            *)
(***************************************************************************)
\* longest list given to a fusion function
MaxFuseLen == 2

\* ids of the fused results, as sequences of tokens; <<>> is a missing
\* document_id (result.get("document_id") is None or '')
DocIds == {<<>>, <<"doc", "_", "a">>, <<"doc", "_", "b">>}

ChunkIds == {<<"chunk", "_", "0">>, <<"chunk", "_", "1">>}

\* similarity score of an input result, in units of 1e-5
FuseScores == {80000}

\* a channel's result
FuseItems == [document_id : DocIds, chunk_id : ChunkIds, score : FuseScores]

\* the lists a channel can return
FuseLists == UNION {[1..n -> FuseItems] : n \in 0..MaxFuseLen}

RECURSIVE Product(_, _)
Product(lo, hi) == IF lo > hi THEN 1 ELSE lo * Product(lo + 1, hi)

\* rrf_fusion's parameter k
RrfK == 60

\* rrf_fusion scores are counted in units of 1 / RrfUnit, which every
\* k + rank + 1 of a list position divides
RrfUnit == Product(RrfK + 1, RrfK + MaxFuseLen)

\* result.get("document_id") or result.get("chunk_id")
RrfKey(result) ==
  IF result.document_id # <<>> THEN result.document_id ELSE result.chunk_id

\* mutant of RrfScore: later positions of a list score more
RrfScore_Rising(rank) == RrfUnit \div (RrfK + MaxFuseLen - rank)

\* score = 1.0 / (k + rank + 1), for the 0-based `rank` of a list position
RrfScore(rank) == RrfUnit \div (RrfK + rank + 1)

\* one `for rank, result in enumerate(...)` loop of rrf_fusion, from 0-based
\* `rank` on; doc_scores is the dict in insertion order; `update` tells the
\* vector loop, whose line 308 copies the result over the stored one
RECURSIVE RrfLoop(_, _, _, _)
RrfLoop(doc_scores, rs, rank, update) ==
  IF rs = <<>> THEN doc_scores
  ELSE LET result == Head(rs)
           doc_id == RrfKey(result)
           score == RrfScore(rank)
           at == {i \in 1..Len(doc_scores) : doc_scores[i].key = doc_id}
           added ==
             IF doc_id = <<>> THEN doc_scores
             ELSE IF at = {}
             THEN Append(doc_scores,
                         [key |-> doc_id, result |-> result, score |-> score])
             ELSE [i \in 1..Len(doc_scores) |->
                     IF i \in at
                     THEN [key |-> doc_id,
                           result |-> IF update THEN result
                                      ELSE doc_scores[i].result,
                           score |-> doc_scores[i].score + score]
                     ELSE doc_scores[i]]
       IN  RrfLoop(added, Tail(rs), rank + 1, update)

\* HybridSearchResult.rrf_fusion(vector_results, keyword_results, k = 60)
rrf_fusion(vector, keyword) ==
  LET doc_scores == RrfLoop(RrfLoop(<<>>, vector, 0, TRUE), keyword, 0, FALSE)
      sorted_results == SortDesc(doc_scores)
  IN  [i \in 1..Len(sorted_results) |->
         [document_id |-> sorted_results[i].result.document_id,
          chunk_id |-> sorted_results[i].result.chunk_id,
          score |-> sorted_results[i].result.score,
          fusion_score |-> sorted_results[i].score]]

\* VectorSearchEngine._format_results: the SearchResult objects of a list
format_results(rs, source) ==
  [i \in 1..Len(rs) |->
     [document_id |-> rs[i].document_id,
      chunk_id |-> rs[i].chunk_id,
      score |-> rs[i].score,
      source |-> <<source>>,
      rank |-> i]]

\* f"{result.document_id}_{result.chunk_id}"
DocKey(result) == result.document_id \o <<"_">> \o result.chunk_id

\* '|'.join(sources)
RECURSIVE JoinBar(_)
JoinBar(sources) ==
  IF sources = <<>> THEN <<>>
  ELSE IF Len(sources) = 1 THEN <<sources[1]>>
  ELSE <<sources[1], "|">> \o JoinBar(Tail(sources))

\* reciprocal ranks are counted in units of 1 / (RankUnit * total_weight),
\* which every rank of a list position divides
RankUnit == Product(1, MaxFuseLen)

\* reciprocal_rank = 1.0 / rank, for the 1-based `rank` of a list position
ReciprocalRank(rank) == RankUnit \div rank

\* the inner loop of _reciprocal_rank_fusion over one source's results, from
\* 1-based `rank` on; all_documents is the dict in insertion order
RECURSIVE RankLoop(_, _, _, _, _)
RankLoop(all_documents, source_name, weight, rs, rank) ==
  IF rs = <<>> THEN all_documents
  ELSE LET result == Head(rs)
           doc_key == DocKey(result)
           weighted_score == ReciprocalRank(rank) * weight
           at == {i \in 1..Len(all_documents) :
                    all_documents[i].key = doc_key}
           added ==
             IF at = {}
             THEN Append(all_documents,
                         [key |-> doc_key, result |-> result,
                          scores |-> <<weighted_score>>,
                          sources |-> <<source_name>>])
             ELSE [i \in 1..Len(all_documents) |->
                     IF i \in at
                     THEN [all_documents[i] EXCEPT
                             !.scores = Append(@, weighted_score),
                             !.sources = Append(@, source_name)]
                     ELSE all_documents[i]]
       IN  RankLoop(added, source_name, weight, Tail(rs), rank + 1)

\* the outer loop of _reciprocal_rank_fusion over the sources, in the
\* dict's insertion order
RECURSIVE SourceLoop(_, _, _)
SourceLoop(all_documents, source_results, weights) ==
  IF source_results = <<>> THEN all_documents
  ELSE SourceLoop(RankLoop(all_documents, Head(source_results).name,
                           Head(weights), Head(source_results).results, 1),
                  Tail(source_results), Tail(weights))

RECURSIVE Sum(_)
Sum(xs) == IF xs = <<>> THEN 0 ELSE Head(xs) + Sum(Tail(xs))

\* ResultFusion._reciprocal_rank_fusion(source_results, weights)
_reciprocal_rank_fusion(source_results, weights) ==
  LET all_documents == SourceLoop(<<>>, source_results, weights)
      fused == SortDesc([i \in 1..Len(all_documents) |->
                 [document_id |-> all_documents[i].result.document_id,
                  chunk_id |-> all_documents[i].result.chunk_id,
                  score |-> Sum(all_documents[i].scores),
                  source |-> JoinBar(all_documents[i].sources),
                  rank |-> all_documents[i].result.rank]])
  IN  [i \in 1..Len(fused) |-> [fused[i] EXCEPT !.rank = i]]

\* ResultFusion.fuse_multiple_sources(source_results) with the default
\* strategy and weights: every source weighs 1.0 of a total of
\* Len(source_results)
fuse_multiple_sources(source_results) ==
  IF source_results = <<>> THEN <<>>
  ELSE _reciprocal_rank_fusion(source_results,
                               [i \in 1..Len(source_results) |-> 1])

\* the two lists as the dict {source_name: [SearchResult]}
SourceResults(vector, keyword) ==
  <<[name |-> "vector", results |-> format_results(vector, "vector")],
    [name |-> "keyword", results |-> format_results(keyword, "keyword")]>>

\* a caller holds a vector and a keyword result list
InitFusion ==
  /\ fusion_pc = "input"
  /\ vector_results \in FuseLists
  /\ keyword_results \in FuseLists
  /\ rrf_fused = NotCalled
  /\ fused_results = NotCalled

\* the caller fuses the lists with HybridSearchResult.rrf_fusion
RrfFusion ==
  /\ fusion_pc = "input"
  /\ ~rrf_fused.called
  /\ rrf_fused' = [called |-> TRUE,
                   results |-> rrf_fusion(vector_results, keyword_results)]
  /\ UNCHANGED <<fusion_pc, vector_results, keyword_results, fused_results>>
  /\ UNCHANGED <<searchVars, hybridVars, rankVars, rerankVars, componentVars>>

\* the caller fuses the lists with ResultFusion.fuse_multiple_sources
FuseMultipleSources ==
  /\ fusion_pc = "input"
  /\ ~fused_results.called
  /\ fused_results' =
       [called |-> TRUE,
        results |-> fuse_multiple_sources(
                      SourceResults(vector_results, keyword_results))]
  /\ UNCHANGED <<fusion_pc, vector_results, keyword_results, rrf_fused>>
  /\ UNCHANGED <<searchVars, hybridVars, rankVars, rerankVars, componentVars>>

\* no search request is in progress
SearchIdle ==
  /\ pc = "idle"
  /\ req = [q |-> <<>>]
  /\ actual_team = NoneV
  /\ actual_query = <<>>
  /\ search_team = NoneV
  /\ filter_expr = NoneV
  /\ queries = <<>>
  /\ qi = 1
  /\ seen_chunk_ids = {}
  /\ all_candidates = <<>>
  /\ final_candidates = <<>>
  /\ search_type = ""
  /\ ci = 1
  /\ seen_docs = {}
  /\ results = <<>>
  /\ response = NoResponse
  /\ calls = <<>>
  /\ log = {}
  /\ reranker = "None"
  /\ outscored = {}

InitFusionOnly ==
  SearchIdle /\ InitFusion /\ HybridIdle /\ RankIdle /\ RerankIdle
    /\ ComponentsIdle

NextFusion ==
  \/ RrfFusion
  \/ FuseMultipleSources

SpecFusion == InitFusionOnly /\ [][NextFusion]_vars

(***************************************************************************)
(* Properties of the fusion functions                                      *)
(***************************************************************************)
\* the (document_id, chunk_id) pairs of a list
PairsOf(rs) ==
  {<<rs[i].document_id, rs[i].chunk_id>> : i \in 1..Len(rs)}

InputPairs == PairsOf(vector_results) \cup PairsOf(keyword_results)

\* `fused` has exactly one entry per pair of the inputs
OneEntryPerPair(fused) ==
  /\ PairsOf(fused) = InputPairs
  /\ Len(fused) = Cardinality(InputPairs)

\* C1 (as claimed): the output of either fusion function has exactly one
\* entry per distinct (document_id, chunk_id) pair of the two input lists;
\* results that differ in chunk_id stay separate entries.
C1_OneEntryPerPair ==
  /\ rrf_fused.called => OneEntryPerPair(rrf_fused.results)
  /\ fused_results.called => OneEntryPerPair(fused_results.results)

\* the fusion keys of a list's results, as rrf_fusion computes them
RrfKeys(rs) == [i \in 1..Len(rs) |-> RrfKey(rs[i])]

\* the fusion keys of a list's results, as _reciprocal_rank_fusion computes
\* them
DocKeys(rs) == [i \in 1..Len(rs) |-> DocKey(rs[i])]

\* how often `key` occurs among the first p keys
Occurrences(keys, key, p) ==
  Cardinality({i \in 1..Min(p, Len(keys)) : keys[i] = key})

\* the first position of `key`, 0 when it does not occur
FirstAt(keys, key) ==
  IF \E i \in 1..Len(keys) : keys[i] = key
  THEN CHOOSE i \in 1..Len(keys) :
         /\ keys[i] = key
         /\ \A j \in 1..(i - 1) : keys[j] # key
  ELSE 0

\* a is ranked above b in the list, if the list contains both
Above(keys, a, b) ==
  (FirstAt(keys, a) # 0 /\ FirstAt(keys, b) # 0)
    => FirstAt(keys, a) < FirstAt(keys, b)

\* at every cut-off of the list, a occurs at least as often as b above it
Dominates(keys, a, b) ==
  \A p \in 1..Len(keys) : Occurrences(keys, a, p) >= Occurrences(keys, b, p)

\* C14 (as claimed): if candidate A is ranked above candidate B in every
\* channel list that contains both, the fused score of A is at least the
\* fused score of B.
C14_AboveInSharedLists ==
  /\ rrf_fused.called =>
       \A i, j \in 1..Len(rrf_fused.results) :
         LET a == RrfKey(rrf_fused.results[i])
             b == RrfKey(rrf_fused.results[j])
         IN  (/\ a # b
              /\ Above(RrfKeys(vector_results), a, b)
              /\ Above(RrfKeys(keyword_results), a, b))
               => rrf_fused.results[i].fusion_score
                    >= rrf_fused.results[j].fusion_score
  /\ fused_results.called =>
       \A i, j \in 1..Len(fused_results.results) :
         LET a == DocKey(fused_results.results[i])
             b == DocKey(fused_results.results[j])
         IN  (/\ a # b
              /\ Above(DocKeys(vector_results), a, b)
              /\ Above(DocKeys(keyword_results), a, b))
               => fused_results.results[i].score
                    >= fused_results.results[j].score

\* C14 (amended): if in every channel list, at every cut-off of the list,
\* candidate A occurs at least as often as candidate B among the results
\* above the cut-off (so A is above B where both occur, and B occurs in no
\* list without A above it), the fused score of A is at least the fused
\* score of B; a candidate is a fusion key as the function computes it.
C14_DominanceOrdersScores ==
  /\ rrf_fused.called =>
       \A i, j \in 1..Len(rrf_fused.results) :
         LET a == RrfKey(rrf_fused.results[i])
             b == RrfKey(rrf_fused.results[j])
         IN  (/\ Dominates(RrfKeys(vector_results), a, b)
              /\ Dominates(RrfKeys(keyword_results), a, b))
               => rrf_fused.results[i].fusion_score
                    >= rrf_fused.results[j].fusion_score
  /\ fused_results.called =>
       \A i, j \in 1..Len(fused_results.results) :
         LET a == DocKey(fused_results.results[i])
             b == DocKey(fused_results.results[j])
         IN  (/\ Dominates(DocKeys(vector_results), a, b)
              /\ Dominates(DocKeys(keyword_results), a, b))
               => fused_results.results[i].score
                    >= fused_results.results[j].score

\* both functions have fused lists in which one candidate is above another
\* in the vector list and the other occurs in no list without it, and the
\* upper candidate has the strictly greater fused score
C14_Witness ==
  /\ rrf_fused.called
  /\ fused_results.called
  /\ \E i, j \in 1..Len(rrf_fused.results) :
       LET a == RrfKey(rrf_fused.results[i])
           b == RrfKey(rrf_fused.results[j])
       IN  /\ a # b
           /\ FirstAt(RrfKeys(vector_results), b) > 1
           /\ Dominates(RrfKeys(vector_results), a, b)
           /\ Dominates(RrfKeys(keyword_results), a, b)
           /\ rrf_fused.results[i].fusion_score
                > rrf_fused.results[j].fusion_score
  /\ \E i, j \in 1..Len(fused_results.results) :
       LET a == DocKey(fused_results.results[i])
           b == DocKey(fused_results.results[j])
       IN  /\ a # b
           /\ FirstAt(DocKeys(vector_results), b) > 1
           /\ Dominates(DocKeys(vector_results), a, b)
           /\ Dominates(DocKeys(keyword_results), a, b)
           /\ fused_results.results[i].score > fused_results.results[j].score

\* the order of the id tokens as Python compares the strings
TokenRank(t) ==
  CASE t = "0" -> 1
    [] t = "1" -> 2
    [] t = "_" -> 3
    [] t = "a" -> 4
    [] t = "b" -> 5
    [] t = "chunk" -> 6
    [] t = "doc" -> 7

\* s <= t for two ids, as Python compares the strings
RECURSIVE StrLeq(_, _)
StrLeq(s, t) ==
  IF s = <<>> THEN TRUE
  ELSE IF t = <<>> THEN FALSE
  ELSE IF Head(s) = Head(t) THEN StrLeq(Tail(s), Tail(t))
  ELSE TokenRank(Head(s)) < TokenRank(Head(t))

\* (document_id, chunk_id) of a <= (document_id, chunk_id) of b
KeyLeq(a, b) ==
  IF a.document_id = b.document_id THEN StrLeq(a.chunk_id, b.chunk_id)
  ELSE StrLeq(a.document_id, b.document_id)

\* C17 (as claimed): the fused list is ordered by non-increasing fused
\* score, and two candidates of equal fused score appear in ascending order
\* of their (document_id, chunk_id) key, whatever the order of the inputs.
C17_TiesByKey ==
  /\ rrf_fused.called =>
       \A i, j \in 1..Len(rrf_fused.results) :
         i < j =>
           /\ rrf_fused.results[i].fusion_score
                >= rrf_fused.results[j].fusion_score
           /\ rrf_fused.results[i].fusion_score
                = rrf_fused.results[j].fusion_score
                => KeyLeq(rrf_fused.results[i], rrf_fused.results[j])
  /\ fused_results.called =>
       \A i, j \in 1..Len(fused_results.results) :
         i < j =>
           /\ fused_results.results[i].score >= fused_results.results[j].score
           /\ fused_results.results[i].score = fused_results.results[j].score
                => KeyLeq(fused_results.results[i], fused_results.results[j])

\* what the list rs contributes to candidate e under RRF with k = RrfK, in
\* units of 1 / RrfUnit: 1 / (k + r) for the 1-based rank r of e, nothing
\* if e is not in the list
Contribution(rs, e) ==
  IF FirstAt(DocKeys(rs), DocKey(e)) = 0 THEN 0
  ELSE RrfUnit \div (RrfK + FirstAt(DocKeys(rs), DocKey(e)))

\* C24 (as claimed): the fused score of a candidate is the sum, over the
\* channel lists that contain it, of 1 / (k + r) for its 1-based rank r in
\* the list, with k = 60; raw scores and channel weights have no effect.
C24_RrfContributions ==
  /\ rrf_fused.called =>
       \A i \in 1..Len(rrf_fused.results) :
         rrf_fused.results[i].fusion_score
           = Contribution(vector_results, rrf_fused.results[i])
               + Contribution(keyword_results, rrf_fused.results[i])
  /\ fused_results.called =>
       \A i \in 1..Len(fused_results.results) :
         fused_results.results[i].score * RrfUnit
           = (Contribution(vector_results, fused_results.results[i])
                + Contribution(keyword_results, fused_results.results[i]))
               * RankUnit
               * Len(SourceResults(vector_results, keyword_results))

(***************************************************************************)
(* Hybrid search: VectorSearchEngine.search, HybridSearchEngine.search and *)
(* DocumentRetriever._hybrid_retrieve                                      *)
(***************************************************************************)
\* largest top_k of a call
MaxTopK == 2

\* most entities the vector store holds for a query
MaxStore == 2

\* longest list the keyword engine returns
MaxKeyword == 1

\* (document_id, chunk_id) of the stored chunks
StoreKeys ==
  {<<<<"doc", "_", "a">>, <<"chunk", "_", "0">>>>,
   <<<<"doc", "_", "a">>, <<"chunk", "_", "1">>>>,
   <<<<"doc", "_", "b">>, <<"chunk", "_", "0">>>>}

\* cosine similarity of an entity to the query, in units of 1e-5: below
\* HybridSearchEngine's threshold, between the two thresholds, above both
StoreScores == {5000, 30000, 80000}

\* an entity's metadata, as the set of its keys
Metadatas == {{}, {"title"}}

Entities ==
  {[document_id |-> k[1], chunk_id |-> k[2], score |-> sc, metadata |-> md] :
     k \in StoreKeys, sc \in StoreScores, md \in Metadatas}

\* the store's entities in the order collection.search returns them: best
\* first, every chunk once
Stores ==
  {s \in UNION {[1..n -> Entities] : n \in 0..MaxStore} :
     /\ \A i, j \in 1..Len(s) :
          i < j => /\ s[i].score >= s[j].score
                   /\ <<s[i].document_id, s[i].chunk_id>>
                        # <<s[j].document_id, s[j].chunk_id>>}

\* score of a keyword result, in units of 1e-5
KeywordScores == {60000}

\* the lists keyword_engine.search(...).results can be
KeywordLists ==
  UNION {[1..n -> {[document_id |-> k[1], chunk_id |-> k[2], score |-> sc,
                    source |-> <<"keyword">>, rank |-> 1] :
                     k \in StoreKeys, sc \in KeywordScores}] :
           n \in 0..MaxKeyword}

\* query strings of the explored calls, as tokens: a word, "^", a number,
\* a space
HybridQueries ==
  {<<>>,
   <<"bu", "shu3">>,
   <<"title", "^", "2", " ", "bu", "shu3">>,
   <<"biaoti", "^", "2">>}

\* QueryParser.field_mappings; "biaoti" is the word U+6807 U+9898
FieldMapped(field) == IF field = "biaoti" THEN "title" ELSE field

\* float(weight) of the weights the explored queries carry
BoostWeights == [w \in {"2"} |-> 2]

\* QueryParser._parse_boost_factors: the field^weight marks of the query
_parse_boost_factors(query_string) ==
  {<<FieldMapped(query_string[i]), BoostWeights[query_string[i + 2]]>> :
     i \in {j \in 1..(Len(query_string) - 2) :
              /\ query_string[j] \notin {" ", "^"}
              /\ query_string[j + 1] = "^"
              /\ query_string[j + 2] \in DOMAIN BoostWeights}}

\* QueryProcessor.process_query: None when QueryParser.parse raises on a
\* blank query, the parsed query otherwise
process_query(query_string) ==
  IF strip(query_string) = <<>> THEN [parsed |-> FALSE, boost_factors |-> {}]
  ELSE [parsed |-> TRUE,
        boost_factors |-> _parse_boost_factors(strip(query_string))]

\* VectorSearchEngine._apply_query_filters: the result with its score
\* multiplied by the boost of every boosted field its metadata has
RECURSIVE Boosted(_, _)
Boosted(result, boost_factors) ==
  IF boost_factors = {} THEN result
  ELSE LET b == CHOOSE x \in boost_factors : TRUE
           rest == Boosted(result, boost_factors \ {b})
       IN  IF b[1] \in result.metadata
           THEN [rest EXCEPT !.score = @ * b[2]]
           ELSE rest

\* VectorSearchEngine._filter_and_rank_results
_filter_and_rank_results(raw_results, similarity_threshold, parsed_query) ==
  LET kept == SelectSeq(raw_results,
                        LAMBDA r : r.score >= similarity_threshold)
  IN  SortDesc([i \in 1..Len(kept) |->
                  Boosted(kept[i], parsed_query.boost_factors)])

\* VectorStorageManager.search_similar_documents: the top_k best entities
search_similar_documents(entities, top_k) == Take(entities, top_k)

\* VectorSearchEngine.search(query, top_k, similarity_threshold).  `raises`
\* tells whether the encoder or the vector store raise; encode_single
\* raises on a blank query
vector_search(query, top_k, similarity_threshold, entities, raises) ==
  IF raises \/ strip(query) = <<>>
  THEN [raised |-> TRUE, results |-> <<>>]
  ELSE LET parsed_query == process_query(query)
           raw_results == search_similar_documents(entities, top_k * 2)
           filtered_results ==
             _filter_and_rank_results(raw_results, similarity_threshold,
                                      parsed_query)
           final_results == Take(filtered_results, top_k)
       IN  [raised |-> FALSE,
            results |-> format_results(final_results, "vector")]

\* position scores are counted in units of 1 / PosUnit, which the length of
\* every result list divides
PosUnit == Product(1, MaxStore) * Product(1, MaxKeyword)

\* HybridSearchEngine.search's similarity_threshold = 0.1
HybridThreshold == 10000

\* DocumentRetriever.default_similarity_threshold = 0.5
RetrieverThreshold == 50000

\* result.score * weight + (len - i) / len of _fuse_results, with the
\* weight in tenths and the 0-based position i; in units of 1e-6 / PosUnit
PositionWeighted(result, weight, i, len) ==
  (result.score * weight * PosUnit)
    + ((len - i) * (PosUnit \div len) * 1000000)

\* one loop of _fuse_results over `rs` from 0-based position i on; `fused`
\* is fused_scores and result_lookup in insertion order; the vector loop
\* assigns the score, the keyword loop adds to a score that is there
RECURSIVE FuseLoop(_, _, _, _, _, _)
FuseLoop(fused, rs, weight, i, len, accumulate) ==
  IF i >= len THEN fused
  ELSE LET result == rs[i + 1]
           doc_key == DocKey(result)
           part == PositionWeighted(result, weight, i, len)
           at == {j \in 1..Len(fused) : fused[j].key = doc_key}
           added ==
             IF at = {}
             THEN Append(fused,
                         [key |-> doc_key, result |-> result, score |-> part])
             ELSE [j \in 1..Len(fused) |->
                     IF j \in at
                     THEN (IF accumulate
                           THEN [fused[j] EXCEPT !.score = @ + part]
                           ELSE [key |-> doc_key, result |-> result,
                                 score |-> part])
                     ELSE fused[j]]
       IN  FuseLoop(added, rs, weight, i + 1, len, accumulate)

\* HybridSearchEngine._fuse_results
_fuse_results(vector, keyword, vector_weight, keyword_weight, top_k) ==
  LET after_vector ==
        FuseLoop(<<>>, vector, vector_weight, 0, Len(vector), FALSE)
      fused == FuseLoop(after_vector, keyword, keyword_weight, 0,
                        Len(keyword), TRUE)
      sorted_docs == Take(SortDesc(fused), top_k)
  IN  [i \in 1..Len(sorted_docs) |->
         [sorted_docs[i].result EXCEPT
            !.score = sorted_docs[i].score,
            !.rank = i,
            !.source = <<"hybrid">>]]

\* the RetrievedDocument objects _vector_retrieve builds of the first top_k
\* results
RetrievedDocuments(rs, top_k) ==
  LET top == Take(rs, top_k)
  IN  [i \in 1..Len(top) |->
         [document_id |-> top[i].document_id,
          chunk_id |-> top[i].chunk_id,
          score |-> top[i].score,
          retrieval_method |-> "vector"]]

\* one loop of _fuse_retrieval_results: a new document enters with its score
\* times the weight (in tenths), a known one gains score times the weight;
\* scores in units of 1e-6
RECURSIVE RetrievalLoop(_, _, _)
RetrievalLoop(doc_dict, docs, weight) ==
  IF docs = <<>> THEN doc_dict
  ELSE LET doc == Head(docs)
           doc_key == DocKey(doc)
           at == {j \in 1..Len(doc_dict) : DocKey(doc_dict[j]) = doc_key}
           added ==
             IF at = {}
             THEN Append(doc_dict, [doc EXCEPT !.score = @ * weight])
             ELSE [j \in 1..Len(doc_dict) |->
                     IF j \in at
                     THEN [doc_dict[j] EXCEPT !.score = @ + doc.score * weight]
                     ELSE doc_dict[j]]
       IN  RetrievalLoop(added, Tail(docs), weight)

\* DocumentRetriever._fuse_retrieval_results
_fuse_retrieval_results(vector_docs, keyword_docs, top_k) ==
  Take(SortDesc(RetrievalLoop(RetrievalLoop(<<>>, vector_docs, 7),
                              keyword_docs, 3)),
       top_k)

HybridRequests ==
  [op : {"search"}, query : HybridQueries, top_k : 0..MaxTopK,
   keyword_engine : {"None", "engine"}]
  \cup
  [op : {"retrieve"}, query : HybridQueries, top_k : 0..MaxTopK,
   keyword_engine : {"None"}]

\* a caller starts a hybrid search or a hybrid retrieval
InitHybrid ==
  /\ hy_pc = "vector"
  /\ hy_req \in HybridRequests
  /\ store \in Stores
  /\ vector_channel = NoChannel
  /\ keyword_channel = NoChannel
  /\ hy_response = NoResponse
  /\ hy_log = {}

\* HybridSearchEngine.search, lines 318-324 and 359-361: the vector search;
\* its exception is logged and raised again
HybridVectorSearch ==
  /\ hy_pc = "vector"
  /\ hy_req.op = "search"
  /\ \E raises \in BOOLEAN :
       LET vector_response ==
             vector_search(hy_req.query, hy_req.top_k * 2, HybridThreshold,
                           store, raises)
       IN  /\ vector_channel' = vector_response
           /\ IF vector_response.raised
              THEN /\ hy_log' = hy_log
                        \cup {Logged("hybrid search failed", "vector_engine")}
                   /\ hy_response' = [status |-> 500, raised |-> TRUE]
                   /\ hy_pc' = "done"
              ELSE /\ hy_pc' = "keyword"
                   /\ UNCHANGED <<hy_log, hy_response>>
  /\ UNCHANGED <<hy_req, store, keyword_channel>>
  /\ UNCHANGED <<searchVars, fusionVars, rankVars, rerankVars, componentVars>>

\* mutant of KeywordRaised: the keyword engine's exception leaves search
KeywordRaised_Aborts ==
  /\ keyword_channel' = [raised |-> TRUE, results |-> <<>>]
  /\ hy_log' = hy_log \cup {Logged("hybrid search failed", "keyword_engine")}
  /\ hy_response' = [status |-> 500, raised |-> TRUE]
  /\ hy_pc' = "done"

\* lines 335-336: the keyword engine's exception is logged as a warning,
\* keyword_results stays []
KeywordRaised ==
  /\ keyword_channel' = [raised |-> TRUE, results |-> <<>>]
  /\ hy_log' = hy_log \cup {Logged("keyword search failed", "keyword_engine")}
  /\ hy_response' = hy_response
  /\ hy_pc' = "fuse"

\* lines 326-336: the keyword search, if there is a keyword engine
HybridKeywordSearch ==
  /\ hy_pc = "keyword"
  /\ IF hy_req.keyword_engine = "None"
     THEN /\ keyword_channel' = NoChannel
          /\ hy_pc' = "fuse"
          /\ UNCHANGED <<hy_log, hy_response>>
     ELSE \/ KeywordRaised
          \/ /\ \E keyword_results_h \in KeywordLists :
                  /\ Len(keyword_results_h) <= hy_req.top_k * 2
                  /\ keyword_channel' =
                       [raised |-> FALSE,
                        results |-> [i \in 1..Len(keyword_results_h) |->
                                       [keyword_results_h[i]
                                          EXCEPT !.rank = i]]]
             /\ hy_pc' = "fuse"
             /\ UNCHANGED <<hy_log, hy_response>>
  /\ UNCHANGED <<hy_req, store, vector_channel>>
  /\ UNCHANGED <<searchVars, fusionVars, rankVars, rerankVars, componentVars>>

\* lines 338-357: fusion and the response
HybridFuse ==
  /\ hy_pc = "fuse"
  /\ LET fused == _fuse_results(vector_channel.results,
                                keyword_channel.results, 7, 3, hy_req.top_k)
     IN  hy_response' = [status |-> 200, raised |-> FALSE,
                         results |-> fused,
                         total_hits |-> Len(fused),
                         search_type |-> "hybrid"]
  /\ hy_pc' = "done"
  /\ UNCHANGED <<hy_req, store, vector_channel, keyword_channel, hy_log>>
  /\ UNCHANGED <<searchVars, fusionVars, rankVars, rerankVars, componentVars>>

\* DocumentRetriever._vector_retrieve as _hybrid_retrieve calls it: an
\* exception of the vector search is logged and becomes []
RetrieveVector ==
  /\ hy_pc = "vector"
  /\ hy_req.op = "retrieve"
  /\ \E raises \in BOOLEAN :
       LET response_v ==
             vector_search(hy_req.query, hy_req.top_k * 2, RetrieverThreshold,
                           store, raises)
       IN  /\ vector_channel' =
                [raised |-> response_v.raised,
                 results |-> RetrievedDocuments(response_v.results,
                                                hy_req.top_k)]
           /\ hy_log' = IF response_v.raised
                        THEN hy_log \cup {Logged("vector retrieval failed",
                                                 "vector_engine")}
                        ELSE hy_log
  /\ hy_pc' = "r_keyword"
  /\ UNCHANGED <<hy_req, store, keyword_channel, hy_response>>
  /\ UNCHANGED <<searchVars, fusionVars, rankVars, rerankVars, componentVars>>

\* DocumentRetriever._keyword_retrieve: the placeholder warns and returns []
RetrieveKeyword ==
  /\ hy_pc = "r_keyword"
  /\ keyword_channel' = NoChannel
  /\ hy_log' = hy_log \cup {Logged("keyword retrieval not implemented",
                                   "_keyword_retrieve")}
  /\ hy_pc' = "r_fuse"
  /\ UNCHANGED <<hy_req, store, vector_channel, hy_response>>
  /\ UNCHANGED <<searchVars, fusionVars, rankVars, rerankVars, componentVars>>

\* DocumentRetriever._hybrid_retrieve, lines 141-145: fusion and return
RetrieveFuse ==
  /\ hy_pc = "r_fuse"
  /\ hy_response' =
       [status |-> 200, raised |-> FALSE,
        results |-> _fuse_retrieval_results(vector_channel.results,
                                            keyword_channel.results,
                                            hy_req.top_k)]
  /\ hy_pc' = "done"
  /\ UNCHANGED <<hy_req, store, vector_channel, keyword_channel, hy_log>>
  /\ UNCHANGED <<searchVars, fusionVars, rankVars, rerankVars, componentVars>>

InitHybridOnly ==
  SearchIdle /\ FusionIdle /\ InitHybrid /\ RankIdle /\ RerankIdle
    /\ ComponentsIdle

NextHybrid ==
  \/ HybridVectorSearch
  \/ HybridKeywordSearch
  \/ HybridFuse
  \/ RetrieveVector
  \/ RetrieveKeyword
  \/ RetrieveFuse

SpecHybrid == InitHybridOnly /\ [][NextHybrid]_vars

(***************************************************************************)
(* Properties of hybrid search                                             *)
(***************************************************************************)
HybridDone == hy_pc = "done"

\* the call had no keyword channel: no keyword engine is configured, the
\* retriever's keyword retrieval is a placeholder, or the engine raised
KeywordAbsent == hy_req.keyword_engine = "None"

KeywordFailed == keyword_channel.raised

\* the similarity threshold the call passes to the vector search
ThresholdOf(request) ==
  IF request.op = "search" THEN HybridThreshold ELSE RetrieverThreshold

\* the vector search did not raise, the store holds an entity that is
\* similar enough to the query, and at least one result is asked for
VectorMatched ==
  /\ ~vector_channel.raised
  /\ hy_req.top_k >= 1
  /\ \E i \in 1..Len(store) : store[i].score >= ThresholdOf(hy_req)

\* C10: when there is no keyword engine or its search raises, the keyword
\* result is the empty list and the call still answers: it raises only if
\* the vector search raised, and whenever the vector store holds data
\* matching the query the answer is a non-empty list of vector results.
C10_KeywordFailureDegrades ==
  (HybridDone /\ (KeywordAbsent \/ KeywordFailed)) =>
    /\ keyword_channel.results = <<>>
    /\ hy_response.raised => (vector_channel.raised /\ ~KeywordFailed)
    /\ VectorMatched =>
         /\ hy_response.status = 200
         /\ hy_response.results # <<>>
         /\ PairsOf(hy_response.results) \subseteq
              PairsOf(vector_channel.results)

\* the keyword engine raised and the search answered with vector results
C10_Witness ==
  /\ HybridDone
  /\ hy_req.op = "search"
  /\ KeywordFailed
  /\ hy_response.status = 200
  /\ hy_response.results # <<>>
  /\ hy_response.results[1].document_id = store[1].document_id

(***************************************************************************)
(* Ranking stages: ResultRanker.rank_results and                           *)
(* DiversityEnhancer.enhance_diversity                                     *)
(***************************************************************************)
\* longest list given to a ranking stage
MaxRanked == 2

\* latest wall-clock time of a stage call, in units of 1e6 seconds
MaxNow == 2

\* most stage calls a caller makes
MaxRuns == 2

\* dict.get(key, default)
Get(d, key, default) == IF key \in DOMAIN d THEN d[key] ELSE default

\* metadata dicts of the explored results; created_at in units of 1e6
\* seconds
RankedMetadatas ==
  {[k \in {} |-> 0],
   [created_at |-> 1, category |-> "news", content_type |-> "technical",
    view_count |-> 9, language |-> "zh"],
   [category |-> "news", content_type |-> "technical"]}

\* the SearchResult objects a caller can hold; content is known by its
\* length, rank is what an earlier stage left
RankedObjects ==
  {[document_id |-> "doc_a", content_length |-> IF DOMAIN md = {} THEN 40 ELSE 500,
    score |-> sc, metadata |-> md, source |-> "vector", rank |-> rk] :
     sc \in {50000, 80000}, md \in RankedMetadatas, rk \in {1, 3}}

\* np.exp(-1e-7 * age_seconds) at the explored ages, in units of 1e-5
ExpDecay == <<90484, 81873, 74082, 67032, 60653>>

\* np.exp(-1e-7 * age_seconds) at the explored negative ages (created_at
\* later than the clock), in units of 1e-5
ExpGrowth == <<110517, 122140, 134986>>

\* ResultRanker._calculate_recency_score at wall-clock time t
_calculate_recency_score(result, t) ==
  LET created_at == Get(result.metadata, "created_at", 0)
      age_seconds == t - created_at
  IN  IF created_at # 0
      THEN (CASE age_seconds = 0 -> 100000
              [] age_seconds > 0 -> ExpDecay[age_seconds]
              [] OTHER -> ExpGrowth[-age_seconds])
      ELSE 50000

\* np.log1p(popularity) / 10 at the explored popularity, in units of 1e-5
Log1pTenth == [p \in {9, 30000} |-> IF p = 9 THEN 23026 ELSE 103090]

\* ResultRanker._calculate_popularity_score
_calculate_popularity_score(result) ==
  LET metadata == result.metadata
      popularity == Get(metadata, "view_count", 0)
                      + Get(metadata, "like_count", 0) * 2
                      + Get(metadata, "share_count", 0) * 3
  IN  IF popularity > 0
      THEN (IF Log1pTenth[popularity] < 100000 THEN Log1pTenth[popularity]
            ELSE 100000)
      ELSE 10000

\* type_weights.get(content_type, 0.5)
TypeWeight(content_type) ==
  CASE content_type = "technical" -> 100000
    [] content_type = "academic" -> 90000
    [] content_type = "business" -> 70000
    [] OTHER -> 50000

\* ResultRanker._calculate_quality_score, in units of 1e-5 / 12 (the mean
\* of three or four indicators)
_calculate_quality_score(result) ==
  LET metadata == result.metadata
      content_length == result.content_length
      length_scores ==
        IF content_length > 50
        THEN <<IF content_length >= 1000 THEN 100000
               ELSE content_length * 100>>
        ELSE <<>>
      quality_indicators ==
        length_scores
          \o <<IF Get(metadata, "language", "unknown") \in {"zh", "en"}
               THEN 80000 ELSE 30000,
               TypeWeight(Get(metadata, "content_type", "general")),
               Get(metadata, "readability_score", 50000)>>
  IN  Sum(quality_indicators) * (12 \div Len(quality_indicators))

\* ResultRanker._calculate_score_components; quality in units of 1e-5 / 12
_calculate_score_components(result, t) ==
  [similarity |-> result.score,
   recency |-> _calculate_recency_score(result, t),
   popularity |-> _calculate_popularity_score(result),
   quality |-> _calculate_quality_score(result)]

\* ResultRanker._compute_final_score with default_weights (4, 2, 2, 2
\* tenths, weight_sum 10 tenths); in units of 1e-5 / 120
_compute_final_score(components) ==
  (components.similarity * 4 * 12)
    + (components.recency * 2 * 12)
    + (components.popularity * 2 * 12)
    + (components.quality * 2)

\* the position of reference r in a list of entries with a ref field
PositionOf(entries, r) == CHOOSE i \in 1..Len(entries) : entries[i].ref = r

\* the loop that gives the objects of a sorted list the ranks 1..n
Reranked(h, entries) ==
  [r \in DOMAIN h |->
     IF \E i \in 1..Len(entries) : entries[i].ref = r
     THEN [h[r] EXCEPT !.rank = PositionOf(entries, r)]
     ELSE h[r]]

\* ResultRanker.rank_results(results) at wall-clock time t: the returned
\* RankedResult list and the objects after the call
rank_results(h, refs, t) ==
  IF refs = <<>> THEN [out |-> <<>>, heap |-> h]
  ELSE LET scored_results ==
             SortDesc([i \in 1..Len(refs) |->
               [ref |-> refs[i],
                score |-> _compute_final_score(
                            _calculate_score_components(h[refs[i]], t)),
                rank_explanation |->
                  _calculate_score_components(h[refs[i]], t)]])
       IN  [out |-> scored_results, heap |-> Reranked(h, scored_results)]

\* DiversityEnhancer._get_result_category: f"{category}_{content_type}"
_get_result_category(result) ==
  <<Get(result.metadata, "category", "uncategorized"), "_",
    Get(result.metadata, "content_type", "general")>>

\* mutant of Penalized: the penalty is not applied
Penalized_Kept(score, diversity_factor) == score

\* result.score *= (1 - diversity_factor), the factor in tenths
Penalized(score, diversity_factor) == (score * (10 - diversity_factor)) \div 10

\* the walk of enhance_diversity over the list, from position i on
RECURSIVE DiversityWalk(_, _, _, _, _)
DiversityWalk(h, refs, i, selected_categories, diversity_factor) ==
  IF i > Len(refs) THEN h
  ELSE LET category == _get_result_category(h[refs[i]])
       IN  IF category \in selected_categories
           THEN DiversityWalk(
                  [h EXCEPT ![refs[i]].score =
                              Penalized(@, diversity_factor)],
                  refs, i + 1, selected_categories, diversity_factor)
           ELSE DiversityWalk(h, refs, i + 1,
                              selected_categories \cup {category},
                              diversity_factor)

\* DiversityEnhancer.enhance_diversity(results, diversity_factor): the
\* returned list and the objects after the call
enhance_diversity(h, refs, diversity_factor) ==
  IF Len(refs) <= 1
  THEN [out |-> [i \in 1..Len(refs) |->
                   [ref |-> refs[i], score |-> h[refs[i]].score]],
        heap |-> h]
  ELSE LET walked == DiversityWalk(h, refs, 1, {}, diversity_factor)
           diversified_results ==
             SortDesc([i \in 1..Len(refs) |->
                         [ref |-> refs[i], score |-> walked[refs[i]].score]])
       IN  [out |-> diversified_results,
            heap |-> Reranked(walked, diversified_results)]

\* enhance_diversity's default diversity_factor = 0.3, in tenths
DiversityFactor == 3

\* the references of a returned list
RefsOf(entries) == [i \in 1..Len(entries) |-> entries[i].ref]

\* the lists a caller can pass to a stage: its own list, or a list an
\* earlier stage returned
StageInputs == {rk_results} \cup {RefsOf(runs[k].out) : k \in 1..Len(runs)}

\* what is recorded of a stage call: the stage, the list passed, the time,
\* the objects' scores before the call, the returned entries and the ranks
\* the returned objects carry after the call
RunRecord(stage, refs, before, returned) ==
  [stage |-> stage,
   args |-> refs,
   at |-> now,
   before |-> [i \in 1..Len(refs) |-> before[refs[i]].score],
   out |-> returned.out,
   ranks |-> [i \in 1..Len(returned.out) |->
                returned.heap[returned.out[i].ref].rank]]

\* a caller holds a list of distinct result objects
InitRank ==
  /\ \E n \in 0..MaxRanked :
       /\ heap \in [1..n -> RankedObjects]
       /\ rk_results = [i \in 1..n |-> i]
  /\ now = 1
  /\ runs = <<>>

\* the caller ranks a list with ResultRanker.rank_results
RankResults ==
  /\ Len(runs) < MaxRuns
  /\ \E refs \in StageInputs :
       LET returned == rank_results(heap, refs, now)
       IN  /\ heap' = returned.heap
           /\ runs' = Append(runs, RunRecord("rank_results", refs, heap,
                                             returned))
  /\ UNCHANGED <<rk_results, now>>
  /\ UNCHANGED <<searchVars, fusionVars, hybridVars, rerankVars, componentVars>>

\* the caller diversifies a list with DiversityEnhancer.enhance_diversity
EnhanceDiversity ==
  /\ Len(runs) < MaxRuns
  /\ \E refs \in StageInputs :
       LET returned == enhance_diversity(heap, refs, DiversityFactor)
       IN  /\ heap' = returned.heap
           /\ runs' = Append(runs, RunRecord("enhance_diversity", refs, heap,
                                             returned))
  /\ UNCHANGED <<rk_results, now>>
  /\ UNCHANGED <<searchVars, fusionVars, hybridVars, rerankVars, componentVars>>

\* wall-clock time passes between two calls
Tick ==
  /\ now < MaxNow
  /\ now' = now + 1
  /\ UNCHANGED <<heap, rk_results, runs>>
  /\ UNCHANGED <<searchVars, fusionVars, hybridVars, rerankVars, componentVars>>

InitRankOnly ==
  SearchIdle /\ FusionIdle /\ HybridIdle /\ InitRank /\ RerankIdle
    /\ ComponentsIdle

NextRank ==
  \/ RankResults
  \/ EnhanceDiversity
  \/ Tick

SpecRank == InitRankOnly /\ [][NextRank]_vars

(***************************************************************************)
(* Properties of the ranking stages                                        *)
(***************************************************************************)
\* the order and the scores a stage call returned
Outcome(run) ==
  [i \in 1..Len(run.out) |-> <<run.out[i].ref, run.out[i].score>>]

\* C11 (as claimed): two calls of the same stage on the same list of result
\* objects return the same order and the same final scores, whenever the
\* calls are made.
C11_StagesIdempotent ==
  \A j, k \in 1..Len(runs) :
    (runs[j].stage = runs[k].stage /\ runs[j].args = runs[k].args)
      => Outcome(runs[j]) = Outcome(runs[k])

\* the category key of the i-th result passed to a stage call
CategoryAt(run, i) == _get_result_category(heap[run.args[i]])

\* an earlier result of the list passed has the category key of the i-th
SeenBefore(run, i) ==
  \E j \in 1..(i - 1) : CategoryAt(run, j) = CategoryAt(run, i)

\* the score the call returned for the i-th result passed, as a set
ReturnedScore(run, i) ==
  {run.out[o].score : o \in {p \in 1..Len(run.out) :
                                run.out[p].ref = run.args[i]}}

\* C15: enhance_diversity walks the results in the order they are passed:
\* the first result of each category key is returned with the score it came
\* with, and every later result of a key already seen is returned with that
\* score multiplied by (1 - diversity_factor), once.
C15_DiversityWalk ==
  \A k \in 1..Len(runs) :
    runs[k].stage = "enhance_diversity" =>
      /\ Len(runs[k].out) = Len(runs[k].args)
      /\ \A i \in 1..Len(runs[k].args) :
           IF SeenBefore(runs[k], i)
           THEN /\ ReturnedScore(runs[k], i) # {}
                /\ \A s \in ReturnedScore(runs[k], i) :
                     10 * s = (10 - DiversityFactor) * runs[k].before[i]
           ELSE ReturnedScore(runs[k], i) = {runs[k].before[i]}

\* a call on two results of one category key, the second with the higher
\* score: the second is penalized and still returned first
C15_Witness ==
  \E k \in 1..Len(runs) :
    /\ runs[k].stage = "enhance_diversity"
    /\ Len(runs[k].args) = 2
    /\ SeenBefore(runs[k], 2)
    /\ runs[k].before = <<50000, 80000>>
    /\ runs[k].out = <<[ref |-> runs[k].args[2], score |-> 56000],
                       [ref |-> runs[k].args[1], score |-> 50000]>>

\* C16 (as claimed): the list a ranking stage returns has exactly one entry
\* per result passed, is ordered by non-increasing score and carries the
\* ranks 1..n in list order, also for lists of zero or one result whose
\* elements carry a rank from an earlier stage.
C16_ContiguousRanks ==
  \A k \in 1..Len(runs) :
    /\ Len(runs[k].out) = Len(runs[k].args)
    /\ {runs[k].out[i].ref : i \in 1..Len(runs[k].out)}
         = {runs[k].args[i] : i \in 1..Len(runs[k].args)}
    /\ \A i \in 1..(Len(runs[k].out) - 1) :
         runs[k].out[i].score >= runs[k].out[i + 1].score
    /\ runs[k].ranks = [i \in 1..Len(runs[k].out) |-> i]

(***************************************************************************)
(* Reranker.rerank and Reranker.compute_scores with a scoring model        *)
(***************************************************************************)
\* longest document list given to the reranker
MaxDocs == 2

\* the candidate documents a caller can pass: the stored chunks as hits
RerankDocs == {Hit(c, 50000) : c \in Pool}

\* the contents the model is given in a pair
PairContents == {Take(d.content, 512) : d \in {x \in RerankDocs :
                                                strip(x.content) # <<>>}}

\* torch.sigmoid(self.model(**inputs).logits): one score per pair, the
\* score of a pair being the model's score of its content
ModelScores(model, pairs) == [i \in 1..Len(pairs) |-> model[pairs[i][2]]]

\* [0.0] * len(contents)
Zeros(contents) == [i \in 1..Len(contents) |-> 0]

\* Reranker.compute_scores(query, contents).  `raises` tells whether
\* tokenizer or model raise; `model` is the scoring model
compute_scores(query, contents, raises, model) ==
  IF contents = <<>> THEN <<>>
  ELSE IF raises THEN Zeros(contents)
  ELSE LET kept == SelectSeq(contents, LAMBDA c : strip(c) # <<>>)
           pairs == [i \in 1..Len(kept) |-> <<query, Take(kept[i], 512)>>]
       IN  IF pairs = <<>> THEN Zeros(contents)
           ELSE ModelScores(model, pairs)

\* the content strings of a document list
ContentsOf(documents) == [i \in 1..Len(documents) |-> documents[i].content]

RerankRequests ==
  [query : {<<>>, <<"bu", "shu3">>},
   documents : UNION {[1..n -> RerankDocs] : n \in 0..MaxDocs},
   top_k : 0..MaxDocs]

\* a caller holds a query and candidate documents; the model is loaded
InitRerank ==
  /\ rr_req \in RerankRequests
  /\ model_score \in [PairContents -> RerankScores]
  /\ rr_result = NoRerank
  /\ cs_result = NoScores

\* the caller reranks the documents
CallRerank ==
  /\ ~rr_result.called
  /\ \E raises \in BOOLEAN :
       rr_result' =
         [called |-> TRUE,
          raised |-> raises,
          results |-> rerank(rr_req.query, rr_req.documents, rr_req.top_k,
                             raises,
                             ModelScores(model_score,
                                         Pairs(rr_req.query,
                                               rr_req.documents)))]
  /\ UNCHANGED <<rr_req, model_score, cs_result>>
  /\ UNCHANGED <<searchVars, fusionVars, hybridVars, rankVars, componentVars>>

\* the caller scores the documents' contents
CallComputeScores ==
  /\ ~cs_result.called
  /\ \E raises \in BOOLEAN :
       cs_result' =
         [called |-> TRUE,
          raised |-> raises,
          scores |-> compute_scores(rr_req.query, ContentsOf(rr_req.documents),
                                    raises, model_score)]
  /\ UNCHANGED <<rr_req, model_score, rr_result>>
  /\ UNCHANGED <<searchVars, fusionVars, hybridVars, rankVars, componentVars>>

InitRerankOnly ==
  SearchIdle /\ FusionIdle /\ HybridIdle /\ RankIdle /\ InitRerank
    /\ ComponentsIdle

NextRerank ==
  \/ CallRerank
  \/ CallComputeScores

SpecRerank == InitRerankOnly /\ [][NextRerank]_vars

(***************************************************************************)
(* Properties of the reranker                                              *)
(***************************************************************************)
\* the rerank call scored its documents: the query is not blank, nothing
\* raised and some document has content
RerankSucceeded ==
  /\ rr_result.called
  /\ ~rr_result.raised
  /\ strip(rr_req.query) # <<>>
  /\ ValidDocs(rr_req.documents) # <<>>

\* C12: after a successful rerank call every returned document carries, as
\* rerank_score, the score the model gave to the pair made of the query and
\* that document's own content, and it is one of the input documents with
\* content.
C12_RerankScoreBinding ==
  RerankSucceeded =>
    \A i \in 1..Len(rr_result.results) :
      LET r == rr_result.results[i]
      IN  /\ strip(r.content) # <<>>
          /\ r.has_rerank
          /\ r.rerank_score = model_score[Take(r.content, 512)]
          /\ \E j \in 1..Len(rr_req.documents) :
               /\ rr_req.documents[j].chunk_id = r.chunk_id
               /\ rr_req.documents[j].content = r.content

\* a successful call whose input has a document without content before a
\* document with content, which is returned with its own score
C12_Witness ==
  /\ RerankSucceeded
  /\ Len(rr_req.documents) = 2
  /\ strip(rr_req.documents[1].content) = <<>>
  /\ Len(rr_result.results) = 1
  /\ rr_result.results[1].chunk_id = rr_req.documents[2].chunk_id
  /\ rr_result.results[1].rerank_score = 80000

\* C13 (as claimed): compute_scores returns one score per element of
\* contents, and the score at position i is the model's score of
\* contents[i], also when some elements are empty or whitespace.
C13_OneScorePerContent ==
  cs_result.called =>
    /\ Len(cs_result.scores) = Len(rr_req.documents)
    /\ ~cs_result.raised =>
         \A i \in 1..Len(rr_req.documents) :
           LET c == rr_req.documents[i].content
           IN  strip(c) # <<>> =>
                 cs_result.scores[i] = model_score[Take(c, 512)]

\* C29 (as claimed): when a rerank call with a non-blank query did not
\* raise and top_k is at least the number of input documents, the returned
\* list is a permutation of the input documents: every input document is
\* returned exactly once.
C29_RerankIsPermutation ==
  (/\ rr_result.called
   /\ ~rr_result.raised
   /\ strip(rr_req.query) # <<>>
   /\ rr_req.top_k >= Len(rr_req.documents))
    => /\ Len(rr_result.results) = Len(rr_req.documents)
       /\ \E p \in [1..Len(rr_req.documents) -> 1..Len(rr_req.documents)] :
            /\ \A a, b \in DOMAIN p : a # b => p[a] # p[b]
            /\ \A a \in DOMAIN p :
                 /\ rr_result.results[a].chunk_id
                      = rr_req.documents[p[a]].chunk_id
                 /\ rr_result.results[a].content
                      = rr_req.documents[p[a]].content

(***************************************************************************)
(* QueryEnhancer.enhance_query on bounded queries                          *)
(***************************************************************************)
\* longest query given to enhance_query, in characters
MaxQueryLen == 3

\* largest num_variations given to enhance_query
MaxVariations == 3

\* the characters of the explored queries: the two characters of a
\* dictionary word, a stop word, a blank and a Latin letter
QueryChars == {"wen", "ti", "de", " ", "A"}

EnhanceQueries == UNION {[1..n -> QueryChars] : n \in 0..MaxQueryLen}

\* a caller holds a query and a num_variations: any int, as the parameter
\* is not validated
InitEnhance ==
  /\ eh_req \in [query : EnhanceQueries, num_variations : (-1)..MaxVariations]
  /\ eh_result = NoVariations

\* the caller asks for the query's variations
EnhanceQuery ==
  /\ ~eh_result.called
  /\ eh_result' = [called |-> TRUE,
                   variations |-> enhance_query(eh_req.query,
                                                eh_req.num_variations)]
  /\ UNCHANGED eh_req
  /\ UNCHANGED <<weightedVars, scoreVars, queueVars>>
  /\ UNCHANGED <<searchVars, fusionVars, hybridVars, rankVars, rerankVars>>

InitEnhanceOnly ==
  SearchIdle /\ FusionIdle /\ HybridIdle /\ RankIdle /\ RerankIdle
    /\ InitEnhance /\ WeightedIdle /\ ScoreIdle /\ QueueIdle

NextEnhance == EnhanceQuery

SpecEnhance == InitEnhanceOnly /\ [][NextEnhance]_vars

(***************************************************************************)
(* Properties of enhance_query                                             *)
(***************************************************************************)
\* the variations in the order enhance_query generates them
Generated(query) ==
  <<query, _synonym_expansion(query), join(_extract_keywords(query)),
    _remove_stopwords(query)>>

\* the position at which a string is first generated
FirstGenerated(query, v) ==
  CHOOSE i \in 1..4 :
    /\ Generated(query)[i] = v
    /\ \A j \in 1..(i - 1) : Generated(query)[j] # v

\* C21 (as claimed): for every query and every num_variations the returned
\* list is not empty, starts with the query, holds no string twice and
\* keeps the variations in the order in which they were first generated.
C21_OriginalFirstNoDuplicates ==
  eh_result.called =>
    LET vs == eh_result.variations
    IN  /\ vs # <<>>
        /\ vs[1] = eh_req.query
        /\ \A i, j \in 1..Len(vs) : i # j => vs[i] # vs[j]
        /\ \A i \in 1..Len(vs) : \E g \in 1..4 : Generated(eh_req.query)[g] = vs[i]
        /\ \A i, j \in 1..Len(vs) :
             i < j => FirstGenerated(eh_req.query, vs[i])
                        < FirstGenerated(eh_req.query, vs[j])

\* C22 (as claimed): with a budget of at least one the call returns at most
\* as many strings as the budget, and every string after the first is the
\* synonym substitution or the stop-word-stripped copy of the query.
C22_AtMostBudget ==
  (eh_result.called /\ eh_req.num_variations >= 1) =>
    LET vs == eh_result.variations
    IN  /\ Len(vs) <= eh_req.num_variations
        /\ \A i \in 2..Len(vs) :
             vs[i] \in {_synonym_expansion(eh_req.query),
                        _remove_stopwords(eh_req.query)}

(***************************************************************************)
(* Weighted fusion: HybridSearchResult.weighted_fusion and                 *)
(* ResultFusion._score_fusion                                              *)
(***************************************************************************)
\* longest list given to a weighted fusion function
MaxWeightedLen == 2

\* raw channel scores in units of 1e-5: a cosine similarity and a keyword
\* (BM25-like) score on its own scale
WeightedScores == {80000, 500000}

WeightedItems ==
  [document_id : {<<"doc", "_", "a">>, <<"doc", "_", "b">>},
   chunk_id : ChunkIds, score : WeightedScores]

WeightedLists == UNION {[1..n -> WeightedItems] : n \in 0..MaxWeightedLen}

\* default vector_weight = 0.7 and keyword_weight = 0.3, in tenths
VectorWeight == 7

KeywordWeight == 3

\* one `for result in ...` loop of weighted_fusion; doc_scores is the dict
\* in insertion order, scores in units of 1e-6
RECURSIVE WeightedLoop(_, _, _)
WeightedLoop(doc_scores, rs, weight) ==
  IF rs = <<>> THEN doc_scores
  ELSE LET result == Head(rs)
           doc_id == RrfKey(result)
           score == result.score * weight
           at == {i \in 1..Len(doc_scores) : doc_scores[i].key = doc_id}
           added ==
             IF doc_id = <<>> THEN doc_scores
             ELSE IF at = {}
             THEN Append(doc_scores,
                         [key |-> doc_id, result |-> result, score |-> score])
             ELSE [i \in 1..Len(doc_scores) |->
                     IF i \in at
                     THEN [doc_scores[i] EXCEPT !.score = @ + score]
                     ELSE doc_scores[i]]
       IN  WeightedLoop(added, Tail(rs), weight)

\* HybridSearchResult.weighted_fusion(vector_results, keyword_results) with
\* the default weights; final_score in units of 1e-6
weighted_fusion(vector, keyword) ==
  LET doc_scores == WeightedLoop(WeightedLoop(<<>>, vector, VectorWeight),
                                 keyword, KeywordWeight)
      sorted_results == SortDesc(doc_scores)
  IN  [i \in 1..Len(sorted_results) |->
         [document_id |-> sorted_results[i].result.document_id,
          chunk_id |-> sorted_results[i].result.chunk_id,
          score |-> sorted_results[i].result.score,
          final_score |-> sorted_results[i].score]]

\* max(0.0, min(1.0, x)) in units of 1e-5
Clamp01(x) == IF x < 0 THEN 0 ELSE IF x > 100000 THEN 100000 ELSE x

\* ResultFusion._normalize_score(score, source_name)
_normalize_score(score, source_name) ==
  IF source_name = "keyword" THEN Clamp01(score \div 10) ELSE Clamp01(score)

\* averaged scores are counted in units of 1e-6 / CountUnit, which every
\* source_count divides
CountUnit == Product(1, 2 * MaxWeightedLen)

\* the inner loop of _score_fusion over one source's results; total_score
\* in units of 1e-6
RECURSIVE ScoreLoop(_, _, _, _)
ScoreLoop(all_documents, source_name, weight, rs) ==
  IF rs = <<>> THEN all_documents
  ELSE LET result == Head(rs)
           doc_key == DocKey(result)
           weighted_score == _normalize_score(result.score, source_name) * weight
           at == {i \in 1..Len(all_documents) :
                    all_documents[i].key = doc_key}
           added ==
             IF at = {}
             THEN Append(all_documents,
                         [key |-> doc_key, result |-> result,
                          total_score |-> weighted_score,
                          source_count |-> 1,
                          sources |-> <<source_name>>])
             ELSE [i \in 1..Len(all_documents) |->
                     IF i \in at
                     THEN [all_documents[i] EXCEPT
                             !.total_score = @ + weighted_score,
                             !.source_count = @ + 1,
                             !.sources = Append(@, source_name)]
                     ELSE all_documents[i]]
       IN  ScoreLoop(added, source_name, weight, Tail(rs))

\* ResultFusion._score_fusion(source_results, weights) for the sources
\* vector and keyword, weights in tenths; score in units of
\* 1e-6 / CountUnit
_score_fusion(source_results, weights) ==
  LET all_documents ==
        ScoreLoop(ScoreLoop(<<>>, source_results[1].name, weights[1],
                            source_results[1].results),
                  source_results[2].name, weights[2],
                  source_results[2].results)
      fused == SortDesc([i \in 1..Len(all_documents) |->
                 [document_id |-> all_documents[i].result.document_id,
                  chunk_id |-> all_documents[i].result.chunk_id,
                  score |-> all_documents[i].total_score
                              * (CountUnit \div all_documents[i].source_count),
                  source |-> JoinBar(all_documents[i].sources),
                  rank |-> all_documents[i].result.rank]])
  IN  [i \in 1..Len(fused) |-> [fused[i] EXCEPT !.rank = i]]

\* a caller holds the result lists of the vector and the keyword channel
InitWeighted ==
  /\ wf_vector \in WeightedLists
  /\ wf_keyword \in WeightedLists
  /\ wf_weighted = NotCalled
  /\ wf_scored = NotCalled

\* the caller fuses the lists with HybridSearchResult.weighted_fusion
WeightedFusion ==
  /\ ~wf_weighted.called
  /\ wf_weighted' = [called |-> TRUE,
                     results |-> weighted_fusion(wf_vector, wf_keyword)]
  /\ UNCHANGED <<wf_vector, wf_keyword, wf_scored>>
  /\ UNCHANGED <<enhanceVars, scoreVars, queueVars>>
  /\ UNCHANGED <<searchVars, fusionVars, hybridVars, rankVars, rerankVars>>

\* the caller fuses the lists with fuse_multiple_sources, strategy
\* SCORE_FUSION, weights {vector: 0.7, keyword: 0.3}
ScoreFusion ==
  /\ ~wf_scored.called
  /\ wf_scored' =
       [called |-> TRUE,
        results |-> _score_fusion(SourceResults(wf_vector, wf_keyword),
                                  <<VectorWeight, KeywordWeight>>)]
  /\ UNCHANGED <<wf_vector, wf_keyword, wf_weighted>>
  /\ UNCHANGED <<enhanceVars, scoreVars, queueVars>>
  /\ UNCHANGED <<searchVars, fusionVars, hybridVars, rankVars, rerankVars>>

InitWeightedOnly ==
  SearchIdle /\ FusionIdle /\ HybridIdle /\ RankIdle /\ RerankIdle
    /\ EnhanceIdle /\ InitWeighted /\ ScoreIdle /\ QueueIdle

NextWeighted ==
  \/ WeightedFusion
  \/ ScoreFusion

SpecWeighted == InitWeightedOnly /\ [][NextWeighted]_vars

(***************************************************************************)
(* Properties of weighted fusion                                           *)
(***************************************************************************)
\* C25 (as claimed): with the default weights 0.7 and 0.3, which sum to 1,
\* every fused score of a weighted fusion lies in [0, 1], whatever the
\* scale of the raw channel scores.
C25_WeightedScoreInUnitRange ==
  /\ wf_weighted.called =>
       \A i \in 1..Len(wf_weighted.results) :
         /\ wf_weighted.results[i].final_score >= 0
         /\ wf_weighted.results[i].final_score <= 1000000
  /\ wf_scored.called =>
       \A i \in 1..Len(wf_scored.results) :
         /\ wf_scored.results[i].score >= 0
         /\ wf_scored.results[i].score <= 1000000 * CountUnit

(***************************************************************************)
(* A caller of ResultRanker's score components                             *)
(***************************************************************************)
\* metadata dicts of the scored results: any subset of the three numeric
\* keys; created_at in units of 1e6 seconds, readability_score in units of
\* 1e-5
ScoredMetadatas ==
  {[k \in keys |-> full[k]] :
     keys \in SUBSET {"created_at", "view_count", "readability_score"},
     full \in [created_at : {1, 3}, view_count : {-1, 9, 30000},
               readability_score : {50000, 400000}]}

\* the SearchResult objects that are scored; score is the raw score of the
\* engine, in units of 1e-5
ScoredObjects ==
  {[document_id |-> "doc_a", content_length |-> 500, score |-> sc,
    metadata |-> md, source |-> "vector", rank |-> 1] :
     sc \in {-20000, 80000, 150000}, md \in ScoredMetadatas}

\* a caller holds one result and the clock shows some time
InitScore ==
  /\ sc_result \in ScoredObjects
  /\ sc_now \in 1..MaxNow
  /\ sc_scores = NoComponents

\* lines 67-69 of rank_results for one result: the components and the
\* final score with default_weights
ScoreComponents ==
  /\ ~sc_scores.called
  /\ LET score_components == _calculate_score_components(sc_result, sc_now)
     IN  sc_scores' = [called |-> TRUE,
                       components |-> score_components,
                       final_score |-> _compute_final_score(score_components)]
  /\ UNCHANGED <<sc_result, sc_now>>
  /\ UNCHANGED <<enhanceVars, weightedVars, queueVars>>
  /\ UNCHANGED <<searchVars, fusionVars, hybridVars, rankVars, rerankVars>>

InitScoreOnly ==
  SearchIdle /\ FusionIdle /\ HybridIdle /\ RankIdle /\ RerankIdle
    /\ EnhanceIdle /\ WeightedIdle /\ InitScore /\ QueueIdle

NextScore == ScoreComponents

SpecScore == InitScoreOnly /\ [][NextScore]_vars

(***************************************************************************)
(* Properties of the score components                                      *)
(***************************************************************************)
\* C26 (as claimed): similarity, recency, popularity and quality, and the
\* final score computed from them, all lie in [0, 1], for any raw score,
\* any created_at (later than the clock included), any counters and any
\* stored readability_score.  quality is kept in units of 1e-5 / 12 and
\* final_score in units of 1e-5 / 120.
C26_ComponentsInUnitRange ==
  sc_scores.called =>
    /\ sc_scores.components.similarity \in 0..100000
    /\ sc_scores.components.recency \in 0..100000
    /\ sc_scores.components.popularity \in 0..100000
    /\ sc_scores.components.quality \in 0..(12 * 100000)
    /\ sc_scores.final_score \in 0..(120 * 100000)

(***************************************************************************)
(* TaskQueue: worker threads and cancel_task                               *)
(***************************************************************************)
\* most tasks submitted
MaxTasks == 2

\* config.get("queue.worker_count", 2)
WorkerCount == 2

\* config.get("queue.max_queue_size", 100)
MaxQueueSize == 100

\* the task types submitted
TaskTypes == {"document_upload", "other"}

\* the task types with a registered handler (document_api.py, line 434)
Handlers == {"document_upload"}

\* TaskQueue.__init__ and _start_workers: empty queue, no task, every
\* worker at the head of its loop
InitQueue ==
  /\ tq_tasks = <<>>
  /\ tq_queue = <<>>
  /\ tq_workers = [w \in 1..WorkerCount |-> [pc |-> "loop", task_id |-> 0]]
  /\ tq_cancel = NoCancel
  /\ tq_returned = {}

\* self._update_task_in_db(task): the row gets the status the Task object
\* has when the statement runs
UpdateTaskInDb(tasks, task_id) ==
  [tasks EXCEPT ![task_id].db_status = tasks[task_id].status]

\* deque.remove(task_id): the first occurrence is removed
RemoveFirst(queue, task_id) ==
  LET at == CHOOSE i \in 1..Len(queue) :
              queue[i] = task_id /\ \A j \in 1..(i - 1) : queue[j] # task_id
  IN  SubSeq(queue, 1, at - 1) \o SubSeq(queue, at + 1, Len(queue))

\* TaskQueue.submit_task, lines 166-193
SubmitTask ==
  /\ Len(tq_tasks) < MaxTasks
  /\ Len(tq_queue) < MaxQueueSize
  /\ \E task_type \in TaskTypes :
       tq_tasks' = Append(tq_tasks,
                          [status |-> "queued", task_type |-> task_type,
                           error |-> "", has_result |-> FALSE,
                           db_status |-> "queued"])
  /\ tq_queue' = Append(tq_queue, Len(tq_tasks) + 1)
  /\ UNCHANGED <<tq_workers, tq_cancel, tq_returned>>
  /\ UNCHANGED <<enhanceVars, weightedVars, scoreVars>>
  /\ UNCHANGED <<searchVars, fusionVars, hybridVars, rankVars, rerankVars>>

\* _worker_loop, lines 305-307: the worker sees a non-empty queue
WorkerPoll ==
  \E w \in DOMAIN tq_workers :
    /\ tq_workers[w].pc = "loop"
    /\ tq_queue # <<>>
    /\ tq_workers' = [tq_workers EXCEPT ![w].pc = "pop"]
    /\ UNCHANGED <<tq_tasks, tq_queue, tq_cancel, tq_returned>>
    /\ UNCHANGED <<enhanceVars, weightedVars, scoreVars>>
    /\ UNCHANGED <<searchVars, fusionVars, hybridVars, rankVars, rerankVars>>

\* line 309: popleft; on an empty deque it raises IndexError, which the
\* handler of lines 355-357 catches
WorkerPop ==
  \E w \in DOMAIN tq_workers :
    /\ tq_workers[w].pc = "pop"
    /\ IF tq_queue = <<>>
       THEN /\ tq_workers' = [tq_workers EXCEPT ![w].pc = "loop"]
            /\ UNCHANGED tq_queue
       ELSE /\ tq_workers' = [tq_workers EXCEPT
                                ![w] = [pc |-> "check",
                                        task_id |-> Head(tq_queue)]]
            /\ tq_queue' = Tail(tq_queue)
    /\ UNCHANGED <<tq_tasks, tq_cancel, tq_returned>>
    /\ UNCHANGED <<enhanceVars, weightedVars, scoreVars>>
    /\ UNCHANGED <<searchVars, fusionVars, hybridVars, rankVars, rerankVars>>

\* lines 310-313: a cancelled task is skipped
WorkerCheck ==
  \E w \in DOMAIN tq_workers :
    /\ tq_workers[w].pc = "check"
    /\ tq_workers' =
         [tq_workers EXCEPT
            ![w] = IF tq_tasks[tq_workers[w].task_id].status = "cancelled"
                   THEN [pc |-> "loop", task_id |-> 0]
                   ELSE [@ EXCEPT !.pc = "start"]]
    /\ UNCHANGED <<tq_tasks, tq_queue, tq_cancel, tq_returned>>
    /\ UNCHANGED <<enhanceVars, weightedVars, scoreVars>>
    /\ UNCHANGED <<searchVars, fusionVars, hybridVars, rankVars, rerankVars>>

\* lines 316-317: task.status = TaskStatus.PROCESSING
WorkerStart ==
  \E w \in DOMAIN tq_workers :
    /\ tq_workers[w].pc = "start"
    /\ tq_tasks' = [tq_tasks EXCEPT
                      ![tq_workers[w].task_id].status = "processing"]
    /\ tq_workers' = [tq_workers EXCEPT ![w].pc = "save_start"]
    /\ UNCHANGED <<tq_queue, tq_cancel, tq_returned>>
    /\ UNCHANGED <<enhanceVars, weightedVars, scoreVars>>
    /\ UNCHANGED <<searchVars, fusionVars, hybridVars, rankVars, rerankVars>>

\* line 318: self._update_task_in_db(task)
WorkerSaveStart ==
  \E w \in DOMAIN tq_workers :
    /\ tq_workers[w].pc = "save_start"
    /\ tq_tasks' = UpdateTaskInDb(tq_tasks, tq_workers[w].task_id)
    /\ tq_workers' = [tq_workers EXCEPT ![w].pc = "run"]
    /\ UNCHANGED <<tq_queue, tq_cancel, tq_returned>>
    /\ UNCHANGED <<enhanceVars, weightedVars, scoreVars>>
    /\ UNCHANGED <<searchVars, fusionVars, hybridVars, rankVars, rerankVars>>

\* lines 323-343: without a handler the task fails; otherwise the handler
\* runs and returns (COMPLETED) or raises (FAILED)
WorkerRun ==
  \E w \in DOMAIN tq_workers :
    LET task_id == tq_workers[w].task_id
    IN  /\ tq_workers[w].pc = "run"
        /\ IF tq_tasks[task_id].task_type \notin Handlers
           THEN tq_tasks' = [tq_tasks EXCEPT
                               ![task_id].status = "failed",
                               ![task_id].error = "no handler"]
           ELSE \E raises \in BOOLEAN :
                  tq_tasks' =
                    IF raises
                    THEN [tq_tasks EXCEPT ![task_id].status = "failed",
                                          ![task_id].error = "raised"]
                    ELSE [tq_tasks EXCEPT ![task_id].status = "completed",
                                          ![task_id].has_result = TRUE]
        /\ tq_workers' = [tq_workers EXCEPT ![w].pc = "save_end"]
        /\ UNCHANGED <<tq_queue, tq_cancel, tq_returned>>
        /\ UNCHANGED <<enhanceVars, weightedVars, scoreVars>>
        /\ UNCHANGED <<searchVars, fusionVars, hybridVars, rankVars,
                       rerankVars>>

\* lines 327-328 and 345-346: completed_at and self._update_task_in_db(task)
WorkerSaveEnd ==
  \E w \in DOMAIN tq_workers :
    /\ tq_workers[w].pc = "save_end"
    /\ tq_tasks' = UpdateTaskInDb(tq_tasks, tq_workers[w].task_id)
    /\ tq_workers' = [tq_workers EXCEPT ![w] = [pc |-> "loop", task_id |-> 0]]
    /\ UNCHANGED <<tq_queue, tq_cancel, tq_returned>>
    /\ UNCHANGED <<enhanceVars, weightedVars, scoreVars>>
    /\ UNCHANGED <<searchVars, fusionVars, hybridVars, rankVars, rerankVars>>

\* cancel_task, lines 226-231: an unknown, completed or failed task is not
\* cancelled (False is returned)
CancelBegin ==
  /\ tq_cancel.pc = "idle"
  /\ \E task_id \in 1..MaxTasks :
       tq_cancel' =
         IF \/ task_id \notin DOMAIN tq_tasks
            \/ tq_tasks[task_id].status \in {"completed", "failed"}
         THEN NoCancel
         ELSE [pc |-> "set", task_id |-> task_id]
  /\ UNCHANGED <<tq_tasks, tq_queue, tq_workers, tq_returned>>
  /\ UNCHANGED <<enhanceVars, weightedVars, scoreVars>>
  /\ UNCHANGED <<searchVars, fusionVars, hybridVars, rankVars, rerankVars>>

\* lines 233-234: task.status = TaskStatus.CANCELLED
CancelSet ==
  /\ tq_cancel.pc = "set"
  /\ tq_tasks' = [tq_tasks EXCEPT ![tq_cancel.task_id].status = "cancelled"]
  /\ tq_cancel' = [tq_cancel EXCEPT !.pc = "in_queue"]
  /\ UNCHANGED <<tq_queue, tq_workers, tq_returned>>
  /\ UNCHANGED <<enhanceVars, weightedVars, scoreVars>>
  /\ UNCHANGED <<searchVars, fusionVars, hybridVars, rankVars, rerankVars>>

\* line 237: if task_id in self._queue; otherwise True is returned
CancelInQueue ==
  /\ tq_cancel.pc = "in_queue"
  /\ IF \E i \in 1..Len(tq_queue) : tq_queue[i] = tq_cancel.task_id
     THEN /\ tq_cancel' = [tq_cancel EXCEPT !.pc = "remove"]
          /\ UNCHANGED tq_returned
     ELSE /\ tq_cancel' = NoCancel
          /\ tq_returned' = tq_returned \cup {tq_cancel.task_id}
  /\ UNCHANGED <<tq_tasks, tq_queue, tq_workers>>
  /\ UNCHANGED <<enhanceVars, weightedVars, scoreVars>>
  /\ UNCHANGED <<searchVars, fusionVars, hybridVars, rankVars, rerankVars>>

\* lines 238-241: self._queue.remove(task_id) and return True; remove
\* raises ValueError when a worker has taken the task_id meanwhile
CancelRemove ==
  /\ tq_cancel.pc = "remove"
  /\ IF \E i \in 1..Len(tq_queue) : tq_queue[i] = tq_cancel.task_id
     THEN /\ tq_queue' = RemoveFirst(tq_queue, tq_cancel.task_id)
          /\ tq_returned' = tq_returned \cup {tq_cancel.task_id}
     ELSE UNCHANGED <<tq_queue, tq_returned>>
  /\ tq_cancel' = NoCancel
  /\ UNCHANGED <<tq_tasks, tq_workers>>
  /\ UNCHANGED <<enhanceVars, weightedVars, scoreVars>>
  /\ UNCHANGED <<searchVars, fusionVars, hybridVars, rankVars, rerankVars>>

InitQueueOnly ==
  SearchIdle /\ FusionIdle /\ HybridIdle /\ RankIdle /\ RerankIdle
    /\ EnhanceIdle /\ WeightedIdle /\ ScoreIdle /\ InitQueue

NextQueue ==
  \/ SubmitTask
  \/ WorkerPoll
  \/ WorkerPop
  \/ WorkerCheck
  \/ WorkerStart
  \/ WorkerSaveStart
  \/ WorkerRun
  \/ WorkerSaveEnd
  \/ CancelBegin
  \/ CancelSet
  \/ CancelInQueue
  \/ CancelRemove

SpecQueue == InitQueueOnly /\ [][NextQueue]_vars

(***************************************************************************)
(* Properties of the task queue                                            *)
(***************************************************************************)
\* C30 (as claimed): under any interleaving of the worker threads with
\* cancel_task, a task for which cancel_task returned True has the status
\* CANCELLED from then on.
C30_CancelledStaysCancelled ==
  \A task_id \in tq_returned : tq_tasks[task_id].status = "cancelled"


=============================================================================
